---- MODULE Spec2Model ----
(***************************************************************************)
(* A model of time-slots-finder: the search for bookable time slots in a   *)
(* weekly availability calendar (src/src/time-slots-dayjs.ts).             *)
(*                                                                         *)
(* Time.  An instant is a record [min, ms]: the minutes elapsed since      *)
(* 2020-01-01 00:00 on the wall clock of the configured time zone, and the *)
(* milliseconds elapsed within that minute (0..59999).  The configured     *)
(* zone is taken to have a constant UTC offset over the modelled days, so  *)
(* that adding minutes, days and years is wall-clock arithmetic.           *)
(*                                                                         *)
(* Optional values.  An optional field of the configuration is <<>> when   *)
(* absent (undefined / null) and <<v>> when it holds v.                    *)
(*                                                                         *)
(* "HH:mm" strings are tuples of their four digits <<h1, h2, m1, m2>>.     *)
(***************************************************************************)
EXTENDS Integers, Sequences, FiniteSets, TLC

VARIABLES
    configuration,    \* params.configuration
    from,             \* params.from
    to,               \* params.to
    now,              \* the instant dayjs() returns during the call
    pc,               \* the position of the call
    usedConfig,       \* the configuration with its shifts merged
    eventList,        \* the blocking events built from unavailablePeriods
    firstFromMoment,  \* the lower boundary of the search
    lastToMoment,     \* the upper boundary of the search
    fromMoment,       \* the day loop's cursor
    dayShifts,        \* the shifts of the weekday being processed
    shiftIndex,       \* forEach's index in dayShifts
    partialFrom,      \* the shift window handed to the sweep
    partialTo,
    cleanedList,      \* the sweep's prepared events
    eventIndex,       \* the sweep's index in cleanedList (0-based, -1: none)
    searchMoment,     \* the sweep's cursor
    shiftSlots,       \* the slots the sweep found in this shift window
    timeSlots,        \* the slots found so far; the result once pc = "done"
    subject,          \* the argument of a call to one of the exported helpers
    outcome,          \* what that call returned or threw
    luxon             \* the locals of the same call made to the luxon
                      \* implementation (src/unnamed/part_000)

vars == <<configuration, from, to, now, pc, usedConfig, eventList,
          firstFromMoment, lastToMoment, fromMoment, dayShifts, shiftIndex,
          partialFrom, partialTo, cleanedList, eventIndex, searchMoment,
          shiftSlots, timeSlots, subject, outcome, luxon>>

(***************************************************************************)
(* Optional values                                                         *)
(***************************************************************************)
None == <<>>

Some(v) == <<v>>

\* value ?? default
OrElse(opt, default) == IF opt = None THEN default ELSE opt[1]

(***************************************************************************)
(* Instants and the dayjs operations the program uses on them              *)
(***************************************************************************)
MinutesPerDay == 24 * 60

MsPerMinute == 60 * 1000

Moment(minutes, millis) == [min |-> minutes, ms |-> millis]

IsBefore(a, b) == a.min < b.min \/ (a.min = b.min /\ a.ms < b.ms)

IsAfter(a, b) == IsBefore(b, a)

IsSameOrBefore(a, b) == ~IsBefore(b, a)

\* dayjs.max(a, b), dayjs.min(a, b)
MaxMoment(a, b) == IF IsBefore(a, b) THEN b ELSE a

MinMoment(a, b) == IF IsBefore(b, a) THEN b ELSE a

\* moment.add(n, "minute"), moment.subtract(n, "minute")
AddMinutes(m, n) == [m EXCEPT !.min = @ + n]

SubtractMinutes(m, n) == [m EXCEPT !.min = @ - n]

\* moment.add(n, "day")
AddDays(m, n) == [m EXCEPT !.min = @ + n * MinutesPerDay]

StartOfDay(m) == Moment((m.min \div MinutesPerDay) * MinutesPerDay, 0)

EndOfDay(m) ==
    Moment((m.min \div MinutesPerDay) * MinutesPerDay + MinutesPerDay - 1,
           MsPerMinute - 1)

StartOfMinute(m) == [m EXCEPT !.ms = 0]

\* moment.second(), moment.minute(), moment.hour()
SecondOf(m) == m.ms \div 1000

MillisecondOf(m) == m.ms % 1000

MinuteOf(m) == m.min % 60

HourOf(m) == (m.min \div 60) % 24

\* moment.millisecond(0)
SetMillisecond0(m) == [m EXCEPT !.ms = (@ \div 1000) * 1000]

\* moment.hour(h).minute(mi): the seconds and milliseconds are kept
SetHourMinute(m, h, mi) ==
    [m EXCEPT !.min = (@ \div MinutesPerDay) * MinutesPerDay + h * 60 + mi]

\* the number of the day of an instant, 0 for 2020-01-01
DayNumber(m) == m.min \div MinutesPerDay

\* moment.isoWeekday(): 1 for Monday .. 7 for Sunday; 2020-01-01 is a Wednesday
IsoWeekday(m) == ((DayNumber(m) + 2) % 7) + 1

\* endAt.diff(startAt, "minute"): whole minutes, truncated
DiffMinutes(b, a) ==
    LET total == (b.min - a.min) * MsPerMinute + (b.ms - a.ms)
    IN  IF total >= 0 THEN total \div MsPerMinute
        ELSE -((-total) \div MsPerMinute)

(***************************************************************************)
(* The calendar: from year, month (0..11), day, hour, minute to an instant *)
(***************************************************************************)
IsLeapYear(y) == (y % 4 = 0 /\ y % 100 # 0) \/ y % 400 = 0

DaysInYear(y) == IF IsLeapYear(y) THEN 366 ELSE 365

\* dayjs().year(y).month(m).daysInMonth()
DaysInMonth(y, m) ==
    IF m \in {3, 5, 8, 10} THEN 30
    ELSE IF m = 1 THEN (IF IsLeapYear(y) THEN 29 ELSE 28)
    ELSE 31

RECURSIVE DaysBeforeMonth(_, _)
DaysBeforeMonth(y, m) ==
    IF m <= 0 THEN 0 ELSE DaysBeforeMonth(y, m - 1) + DaysInMonth(y, m - 1)

RECURSIVE DaysBeforeYear(_)
DaysBeforeYear(y) ==
    IF y = 2020 THEN 0
    ELSE IF y > 2020 THEN DaysBeforeYear(y - 1) + DaysInYear(y - 1)
    ELSE DaysBeforeYear(y + 1) - DaysInYear(y)

\* the instant of a calendar date and time of day
DateTime(y, m, d, h, mi) ==
    Moment((DaysBeforeYear(y) + DaysBeforeMonth(y, m) + d - 1) * MinutesPerDay
           + h * 60 + mi, 0)

RECURSIVE YearOfDay(_, _)
YearOfDay(day, y) ==
    IF day < DaysBeforeYear(y) THEN YearOfDay(day, y - 1)
    ELSE IF day >= DaysBeforeYear(y + 1) THEN YearOfDay(day, y + 1)
    ELSE y

\* moment.year()
YearOf(m) == YearOfDay(DayNumber(m), 2020)

(***************************************************************************)
(* Shifts: "HH:mm" strings as digit tuples                                 *)
(***************************************************************************)
\* a.localeCompare(b) on two strings of the same width: -1, 0 or 1
RECURSIVE CompareFrom(_, _, _)
CompareFrom(a, b, i) ==
    IF i > Len(a) \/ i > Len(b) THEN 0
    ELSE IF a[i] < b[i] THEN -1
    ELSE IF a[i] > b[i] THEN 1
    ELSE CompareFrom(a, b, i + 1)

LocaleCompare(a, b) == CompareFrom(a, b, 1)

\* parseInt(time.slice(0, 2), 10) and parseInt(time.slice(3), 10)
ParseHour(time) == 10 * time[1] + time[2]

ParseMinute(time) == 10 * time[3] + time[4]

\* [...shifts].sort((a, b) => a.startTime.localeCompare(b.startTime)): stable
RECURSIVE InsertShift(_, _)
InsertShift(sorted, shift) ==
    IF sorted = <<>> THEN <<shift>>
    ELSE IF LocaleCompare(shift.startTime, sorted[Len(sorted)].startTime) >= 0
         THEN Append(sorted, shift)
    ELSE Append(InsertShift(SubSeq(sorted, 1, Len(sorted) - 1), shift),
                sorted[Len(sorted)])

RECURSIVE SortShifts(_)
SortShifts(shifts) ==
    IF shifts = <<>> THEN <<>>
    ELSE InsertShift(SortShifts(SubSeq(shifts, 1, Len(shifts) - 1)),
                     shifts[Len(shifts)])

\* sortedShifts.splice(i + 1, 1), with i counted from 1
RemoveAt(seq, i) == SubSeq(seq, 1, i - 1) \o SubSeq(seq, i + 1, Len(seq))

\* the loop without `i -= 1`: a merged shift is not checked against the next
RECURSIVE MergeLoop_NoRecheck(_, _)
MergeLoop_NoRecheck(sortedShifts, i) ==
    IF i >= Len(sortedShifts) THEN sortedShifts
    ELSE IF LocaleCompare(sortedShifts[i].endTime,
                          sortedShifts[i + 1].startTime) >= 0
         THEN LET extended ==
                      IF LocaleCompare(sortedShifts[i].endTime,
                                       sortedShifts[i + 1].endTime) < 0
                      THEN [sortedShifts EXCEPT ![i] =
                                [startTime |-> sortedShifts[i].startTime,
                                 endTime |-> sortedShifts[i + 1].endTime]]
                      ELSE sortedShifts
              IN  MergeLoop_NoRecheck(RemoveAt(extended, i + 1), i + 1)
    ELSE MergeLoop_NoRecheck(sortedShifts, i + 1)

\* the for loop of _mergeOverlappingShifts, from index i (counted from 1)
RECURSIVE MergeLoop(_, _)
MergeLoop(sortedShifts, i) ==
    IF i >= Len(sortedShifts) THEN sortedShifts
    ELSE IF LocaleCompare(sortedShifts[i].endTime,
                          sortedShifts[i + 1].startTime) >= 0
         THEN LET extended ==
                      IF LocaleCompare(sortedShifts[i].endTime,
                                       sortedShifts[i + 1].endTime) < 0
                      THEN [sortedShifts EXCEPT ![i] =
                                [startTime |-> sortedShifts[i].startTime,
                                 endTime |-> sortedShifts[i + 1].endTime]]
                      ELSE sortedShifts
              IN  MergeLoop(RemoveAt(extended, i + 1), i)
    ELSE MergeLoop(sortedShifts, i + 1)

\* the merge without the sort
_mergeOverlappingShifts_Unsorted(shifts) ==
    IF Len(shifts) < 2 THEN shifts ELSE MergeLoop(shifts, 1)

_mergeOverlappingShifts(shifts) ==
    IF Len(shifts) < 2 THEN shifts ELSE MergeLoop(SortShifts(shifts), 1)

_mergeOverlappingShiftsInAvailablePeriods(availablePeriods) ==
    [i \in 1..Len(availablePeriods) |->
        [availablePeriods[i] EXCEPT
            !.shifts = _mergeOverlappingShifts(availablePeriods[i].shifts)]]

(***************************************************************************)
(* The validation of a configuration.  Each check yields "ok" or the name  *)
(* of the TimeSlotsFinderError it throws.                                  *)
(***************************************************************************)
DefaultSlotStartMinuteStep == 5

MinSlotStartMinuteStep == 1

MaxSlotStartMinuteStep == 30

\* the zones dayjs().tz(zone) resolves; any other name makes it throw
KnownTimeZones == {"Europe/Paris", "UTC"}

_nullOrGreaterThanOrEqualTo(limit, value) == value = None \/ value[1] >= limit

_nullOrBetween(min, max, value) ==
    value = None \/ (value[1] >= min /\ value[1] <= max)

_checkTimeZone(timeZone) ==
    IF timeZone = "" THEN "Missing time zone"
    ELSE IF timeZone \notin KnownTimeZones THEN "Invalid time zone"
    ELSE "ok"

_checkPrimitiveValue(cfg) ==
    IF cfg.timeSlotDuration = None \/ cfg.timeSlotDuration[1] < 1
    THEN "Slot duration must be at least 1 minute"
    ELSE IF ~_nullOrBetween(MinSlotStartMinuteStep, MaxSlotStartMinuteStep,
                            cfg.slotStartMinuteStep)
    THEN "Slot start minute step must be contained between 1 and 30"
    ELSE IF ~_nullOrGreaterThanOrEqualTo(0, cfg.minAvailableTimeBeforeSlot)
    THEN "Time before a slot must be at least 0 minutes"
    ELSE IF ~_nullOrGreaterThanOrEqualTo(0, cfg.minAvailableTimeAfterSlot)
    THEN "Time after a slot must be at least 0 minutes"
    ELSE IF ~_nullOrGreaterThanOrEqualTo(0, cfg.minTimeBeforeFirstSlot)
    THEN "The number of minutes before first slot must be 0 or more"
    ELSE IF ~_nullOrGreaterThanOrEqualTo(1, cfg.maxDaysBeforeLastSlot)
    THEN "The number of days before latest slot must be at least 1"
    ELSE IF _checkTimeZone(cfg.timeZone) # "ok"
    THEN _checkTimeZone(cfg.timeZone)
    ELSE IF /\ OrElse(cfg.minTimeBeforeFirstSlot, 0) # 0
            /\ OrElse(cfg.maxDaysBeforeLastSlot, 0) # 0
            \* minBeforeFirst / (24 * 60) > maxBeforeLast
            /\ cfg.minTimeBeforeFirstSlot[1]
                   > cfg.maxDaysBeforeLastSlot[1] * MinutesPerDay
    THEN "The first possible slot will always be after last one possible"
    ELSE "ok"

_isShiftValid(shift) ==
    /\ ParseHour(shift.startTime) >= 0 /\ ParseHour(shift.startTime) <= 23
    /\ ParseMinute(shift.startTime) >= 0 /\ ParseMinute(shift.startTime) <= 59
    /\ ParseHour(shift.endTime) >= 0 /\ ParseHour(shift.endTime) <= 23
    /\ ParseMinute(shift.endTime) >= 0 /\ ParseMinute(shift.endTime) <= 59
    /\ LocaleCompare(shift.endTime, shift.startTime) > 0

\* the validation without the comparison of the merged length
_isAvailablePeriodValid_NoOverlapCheck(availablePeriod) ==
    IF availablePeriod.isoWeekDay < 1 \/ availablePeriod.isoWeekDay > 7
    THEN "ISO Weekday must be contains between 1 (Monday) and 7 (Sunday)"
    ELSE IF \E i \in 1..Len(availablePeriod.shifts) :
                ~_isShiftValid(availablePeriod.shifts[i])
    THEN "Daily shift is invalid"
    ELSE "ok"

_isAvailablePeriodValid(availablePeriod) ==
    IF availablePeriod.isoWeekDay < 1 \/ availablePeriod.isoWeekDay > 7
    THEN "ISO Weekday must be contains between 1 (Monday) and 7 (Sunday)"
    ELSE IF \E i \in 1..Len(availablePeriod.shifts) :
                ~_isShiftValid(availablePeriod.shifts[i])
    THEN "Daily shift is invalid"
    ELSE IF Len(_mergeOverlappingShifts(availablePeriod.shifts))
                # Len(availablePeriod.shifts)
    THEN "Some shifts are overlapping"
    ELSE "ok"

\* dayjs(periodMoment) with the objectSupport plugin: the year defaults to
\* the current year, the hour and the minute to 0
MomentOfObject(periodMoment, today) ==
    DateTime(OrElse(periodMoment.year, YearOf(today)), periodMoment.month,
             periodMoment.day, OrElse(periodMoment.hour, 0),
             OrElse(periodMoment.minute, 0))

_isPeriodMomentValid(periodMoment, today) ==
    IF periodMoment.hour = None /\ periodMoment.minute # None THEN FALSE
    ELSE IF ~(/\ (periodMoment.year = None \/ periodMoment.year[1] > 0)
              /\ periodMoment.month >= 0 /\ periodMoment.month <= 11)
    THEN FALSE
    ELSE /\ periodMoment.day >= 1
         /\ periodMoment.day
                <= DaysInMonth(OrElse(periodMoment.year, YearOf(today)),
                               periodMoment.month)
         /\ (periodMoment.hour = None
                \/ (periodMoment.hour[1] >= 0 /\ periodMoment.hour[1] <= 23))
         /\ (periodMoment.minute = None
                \/ (periodMoment.minute[1] >= 0 /\ periodMoment.minute[1] <= 59))

\* the validation that compares the two ends whether or not they have a year
_isUnavailablePeriodValid_AlwaysOrdered(period, today) ==
    /\ (period.startAt.year = None) = (period.endAt.year = None)
    /\ _isPeriodMomentValid(period.startAt, today)
    /\ _isPeriodMomentValid(period.endAt, today)
    /\ IsBefore(MomentOfObject(period.startAt, today),
                MomentOfObject(period.endAt, today))

_isUnavailablePeriodValid(period, today) ==
    /\ (period.startAt.year = None) = (period.endAt.year = None)
    /\ _isPeriodMomentValid(period.startAt, today)
    /\ _isPeriodMomentValid(period.endAt, today)
    /\ \/ period.startAt.year = None
       \/ IsBefore(MomentOfObject(period.startAt, today),
                   MomentOfObject(period.endAt, today))

\* the first available period (counted from i) that is invalid, or "ok"
RECURSIVE AvailablePeriodsError(_, _)
AvailablePeriodsError(availablePeriods, i) ==
    IF i > Len(availablePeriods) THEN "ok"
    ELSE IF _isAvailablePeriodValid(availablePeriods[i]) # "ok"
    THEN _isAvailablePeriodValid(availablePeriods[i])
    ELSE AvailablePeriodsError(availablePeriods, i + 1)

\* isConfigurationValid with the lead time compared to the horizon after
\* the available and the unavailable periods
ConfigurationError_HorizonLast(cfg, today) ==
    IF _checkPrimitiveValue(cfg)
           \notin {"ok", "The first possible slot will always be after last one possible"}
    THEN _checkPrimitiveValue(cfg)
    ELSE IF AvailablePeriodsError(cfg.availablePeriods, 1) # "ok"
    THEN AvailablePeriodsError(cfg.availablePeriods, 1)
    ELSE IF /\ cfg.unavailablePeriods # None
            /\ \E i \in 1..Len(cfg.unavailablePeriods[1]) :
                   ~_isUnavailablePeriodValid(cfg.unavailablePeriods[1][i], today)
    THEN "Unavailable period is invalid"
    ELSE _checkPrimitiveValue(cfg)

\* isConfigurationValid: "ok" where it returns true, else the error thrown
ConfigurationError(cfg, today) ==
    IF _checkPrimitiveValue(cfg) # "ok" THEN _checkPrimitiveValue(cfg)
    ELSE IF AvailablePeriodsError(cfg.availablePeriods, 1) # "ok"
    THEN AvailablePeriodsError(cfg.availablePeriods, 1)
    ELSE IF /\ cfg.unavailablePeriods # None
            /\ \E i \in 1..Len(cfg.unavailablePeriods[1]) :
                   ~_isUnavailablePeriodValid(cfg.unavailablePeriods[1][i], today)
    THEN "Unavailable period is invalid"
    ELSE "ok"

isConfigurationValid(cfg, today) == ConfigurationError(cfg, today) = "ok"

(***************************************************************************)
(* The validation of the luxon implementation (src/unnamed/part_000)       *)
(***************************************************************************)
\* DateTime.local().setZone(zone) returns an invalid DateTime for an unknown
\* zone and does not throw
Luxon_checkTimeZone(timeZone) ==
    IF timeZone = "" THEN "Missing time zone" ELSE "ok"

\* the checks of the values are left out of this implementation
Luxon_checkPrimitiveValue(cfg) ==
    IF Luxon_checkTimeZone(cfg.timeZone) # "ok"
    THEN Luxon_checkTimeZone(cfg.timeZone)
    ELSE IF /\ OrElse(cfg.minTimeBeforeFirstSlot, 0) # 0
            /\ OrElse(cfg.maxDaysBeforeLastSlot, 0) # 0
            /\ cfg.minTimeBeforeFirstSlot[1]
                   > cfg.maxDaysBeforeLastSlot[1] * MinutesPerDay
    THEN "The first possible slot will always be after last one possible"
    ELSE "ok"

\* DateTime.fromObject(periodMoment) is valid: luxon counts the months from 1
LuxonObjectIsValid(periodMoment, today) ==
    /\ periodMoment.month >= 1 /\ periodMoment.month <= 12
    /\ periodMoment.day >= 1
    /\ periodMoment.day
           <= DaysInMonth(OrElse(periodMoment.year, YearOf(today)),
                          periodMoment.month - 1)

\* DateTime.fromObject(a).toJSDate() < DateTime.fromObject(b).toJSDate():
\* false when either date is invalid
LuxonObjectIsBefore(a, b, today) ==
    /\ LuxonObjectIsValid(a, today)
    /\ LuxonObjectIsValid(b, today)
    /\ IsBefore(DateTime(OrElse(a.year, YearOf(today)), a.month - 1, a.day,
                         OrElse(a.hour, 0), OrElse(a.minute, 0)),
                DateTime(OrElse(b.year, YearOf(today)), b.month - 1, b.day,
                         OrElse(b.hour, 0), OrElse(b.minute, 0)))

Luxon_isUnavailablePeriodValid(period, today) ==
    /\ (period.startAt.year = None) = (period.endAt.year = None)
    /\ _isPeriodMomentValid(period.startAt, today)
    /\ _isPeriodMomentValid(period.endAt, today)
    /\ \/ period.startAt.year = None
       \/ LuxonObjectIsBefore(period.startAt, period.endAt, today)

\* isConfigurationValid of the luxon implementation: "ok" where it returns
\* true, else the error thrown
LuxonConfigurationError(cfg, today) ==
    IF Luxon_checkPrimitiveValue(cfg) # "ok" THEN Luxon_checkPrimitiveValue(cfg)
    ELSE IF AvailablePeriodsError(cfg.availablePeriods, 1) # "ok"
    THEN AvailablePeriodsError(cfg.availablePeriods, 1)
    ELSE IF /\ cfg.unavailablePeriods # None
            /\ \E i \in 1..Len(cfg.unavailablePeriods[1]) :
                   ~Luxon_isUnavailablePeriodValid(cfg.unavailablePeriods[1][i], today)
    THEN "Unavailable period is invalid"
    ELSE "ok"

(***************************************************************************)
(* Blocking events                                                         *)
(***************************************************************************)
\* the month (0..11) and the day of the month of an instant
RECURSIVE MonthOfDay(_, _, _)
MonthOfDay(y, dayOfYear, m) ==
    IF m < 11 /\ dayOfYear >= DaysBeforeMonth(y, m + 1)
    THEN MonthOfDay(y, dayOfYear, m + 1)
    ELSE m

MonthOf(m) ==
    MonthOfDay(YearOf(m), DayNumber(m) - DaysBeforeYear(YearOf(m)), 0)

DateOf(m) ==
    DayNumber(m) - DaysBeforeYear(YearOf(m))
        - DaysBeforeMonth(YearOf(m), MonthOf(m)) + 1

\* moment.add(1, "year"): the same month, day and time of day one year
\* later, the day clamped to the length of the month
AddOneYear(m) ==
    LET y == YearOf(m) + 1
        d == IF DateOf(m) > DaysInMonth(y, MonthOf(m))
             THEN DaysInMonth(y, MonthOf(m)) ELSE DateOf(m)
        day == DateTime(y, MonthOf(m), d, 0, 0)
    IN  Moment(day.min + (m.min % MinutesPerDay), m.ms)

UnavailablePeriodAsEvent(unavailablePeriod, today) ==
    LET startAt0 == MomentOfObject(unavailablePeriod.startAt, today)
        endAt0 == MomentOfObject(unavailablePeriod.endAt, today)
        startAt == IF unavailablePeriod.startAt.hour = None
                   THEN StartOfDay(startAt0) ELSE startAt0
        endAt == IF unavailablePeriod.endAt.hour = None
                 THEN EndOfDay(endAt0) ELSE endAt0
    IN  [startAt |-> startAt,
         endAt |-> IF IsBefore(endAt, startAt) THEN AddOneYear(endAt) ELSE endAt]

_getUnavailablePeriodAsEvents(unavailablePeriods, today) ==
    [i \in 1..Len(unavailablePeriods) |->
        UnavailablePeriodAsEvent(unavailablePeriods[i], today)]

(***************************************************************************)
(* The boundaries of the search                                            *)
(***************************************************************************)
_computeBoundaries(fromDate, toDate, cfg, today) ==
    LET firstFrom ==
            MaxMoment(fromDate,
                      AddMinutes(AddMinutes(today,
                                     OrElse(cfg.minAvailableTimeBeforeSlot, 0)),
                                 OrElse(cfg.minTimeBeforeFirstSlot, 0)))
        lastTo ==
            IF OrElse(cfg.maxDaysBeforeLastSlot, 0) # 0
            THEN MinMoment(toDate,
                           EndOfDay(AddDays(today, cfg.maxDaysBeforeLastSlot[1])))
            ELSE toDate
    IN  [firstFromMoment |-> firstFrom, lastToMoment |-> lastTo]

\* the shifts of the first available period of the moment's weekday; <<>>
\* stands for no such period as well
_getWeekDayConfigForMoment(cfg, moment) ==
    LET matching == {i \in 1..Len(cfg.availablePeriods) :
                        cfg.availablePeriods[i].isoWeekDay = IsoWeekday(moment)}
    IN  IF matching = {} THEN <<>>
        ELSE cfg.availablePeriods[CHOOSE i \in matching :
                                      \A j \in matching : i <= j].shifts

_getMomentsFromShift(moment, shift) ==
    [startAt |-> SetHourMinute(moment, ParseHour(shift.startTime),
                               ParseMinute(shift.startTime)),
     endAt |-> SetHourMinute(moment, ParseHour(shift.endTime),
                             ParseMinute(shift.endTime))]

(***************************************************************************)
(* The preparation of the events of a shift window                         *)
(***************************************************************************)
\* array.filter(keep) is SelectSeq(array, keep)
_filterPeriods(periods, min, max) ==
    LET keep(period) == IsBefore(period.startAt, max) /\ IsAfter(period.endAt, min)
    IN  SelectSeq(periods, keep)

\* periods.sort((a, b) => (a.startAt.isAfter(b.startAt) ? 1 : -1)): the
\* comparison never answers 0, so the order of two periods that start
\* together is the engine's choice.  The set of the orders it may produce.
_sortPeriods(periods) ==
    LET n == Len(periods)
        orders == {[i \in 1..n |-> periods[p[i]]] : p \in Permutations(1..n)}
    IN  {sorted \in orders :
            \A i \in 1..(n - 1) : ~IsAfter(sorted[i].startAt, sorted[i + 1].startAt)}

\* a scan that also answers true for an event that ends together with the
\* one looked for
RECURSIVE FindEncompassingFrom_EqualEnds(_, _, _)
FindEncompassingFrom_EqualEnds(events, event, i) ==
    IF i > Len(events) THEN FALSE
    ELSE IF /\ IsSameOrBefore(events[i].startAt, event.startAt)
            /\ IsSameOrBefore(event.endAt, events[i].endAt)
    THEN TRUE
    ELSE IF IsAfter(events[i].startAt, event.startAt) THEN FALSE
    ELSE FindEncompassingFrom_EqualEnds(events, event, i + 1)

\* the for loop of _findEmcompassingEvent, from index i
RECURSIVE FindEncompassingFrom(_, _, _)
FindEncompassingFrom(events, event, i) ==
    IF i > Len(events) THEN FALSE
    ELSE IF /\ IsSameOrBefore(events[i].startAt, event.startAt)
            /\ IsAfter(events[i].endAt, event.endAt)
    THEN TRUE
    ELSE IF IsAfter(events[i].startAt, event.startAt) THEN FALSE
    ELSE FindEncompassingFrom(events, event, i + 1)

_findEmcompassingEvent(events, event) == FindEncompassingFrom(events, event, 1)

\* the lists _prepareEvents may return
_prepareEvents(periods, min, max) ==
    {LET keep(event) == ~_findEmcompassingEvent(sortedPeriods, event)
     IN  SelectSeq(sortedPeriods, keep) :
        sortedPeriods \in _sortPeriods(_filterPeriods(periods, min, max))}

(***************************************************************************)
(* The sweep of a shift window                                             *)
(***************************************************************************)
_getMinTimeWindowNeeded(cfg) ==
    OrElse(cfg.minAvailableTimeBeforeSlot, 0)
        + cfg.timeSlotDuration[1]
        + OrElse(cfg.minAvailableTimeAfterSlot, 0)

\* a rounding that aligns the cursor itself, not the slot start
_nextSearchMoment_AlignsCursor(moment, cfg) ==
    LET nextMoment == IF SecondOf(moment) # 0
                      THEN AddMinutes(StartOfMinute(moment), 1)
                      ELSE moment
        slotStartMinuteStep == OrElse(cfg.slotStartMinuteStep, DefaultSlotStartMinuteStep)
        minuteToAdd == (slotStartMinuteStep
                            - (MinuteOf(nextMoment) % slotStartMinuteStep))
                       % slotStartMinuteStep
    IN  SetMillisecond0(AddMinutes(nextMoment, minuteToAdd))

_nextSearchMoment(moment, cfg) ==
    LET nextMoment == IF SecondOf(moment) # 0
                      THEN AddMinutes(StartOfMinute(moment), 1)
                      ELSE moment
        slotStartAt == AddMinutes(nextMoment, OrElse(cfg.minAvailableTimeBeforeSlot, 0))
        slotStartMinuteStep == OrElse(cfg.slotStartMinuteStep, DefaultSlotStartMinuteStep)
        minuteToAdd == (slotStartMinuteStep
                            - (MinuteOf(slotStartAt) % slotStartMinuteStep))
                       % slotStartMinuteStep
    IN  SetMillisecond0(AddMinutes(nextMoment, minuteToAdd))

\* the next search starts right at the end of the slot
_pushNewSlot_NoFreeTimeAfter(moment, cfg) ==
    LET startAt == AddMinutes(moment, OrElse(cfg.minAvailableTimeBeforeSlot, 0))
        endAt == AddMinutes(startAt, cfg.timeSlotDuration[1])
    IN  [newSearchMoment |-> endAt,
         timeSlot |-> [startAt |-> startAt, endAt |-> endAt,
                       duration |-> DiffMinutes(endAt, startAt)]]

\* a slot whose end includes the free time after it
_pushNewSlot_EndAfterBuffer(moment, cfg) ==
    LET startAt == AddMinutes(moment, OrElse(cfg.minAvailableTimeBeforeSlot, 0))
        endAt == AddMinutes(startAt, cfg.timeSlotDuration[1]
                                         + OrElse(cfg.minAvailableTimeAfterSlot, 0))
    IN  [newSearchMoment |-> endAt,
         timeSlot |-> [startAt |-> startAt, endAt |-> endAt,
                       duration |-> DiffMinutes(endAt, startAt)]]

_pushNewSlot(moment, cfg) ==
    LET startAt == AddMinutes(moment, OrElse(cfg.minAvailableTimeBeforeSlot, 0))
        endAt == AddMinutes(startAt, cfg.timeSlotDuration[1])
        difference == OrElse(cfg.minAvailableTimeAfterSlot, 0)
                          - OrElse(cfg.minAvailableTimeBeforeSlot, 0)
        minutesBeforeNextSearch == IF difference > 0 THEN difference ELSE 0
    IN  [newSearchMoment |-> AddMinutes(endAt, minutesBeforeNextSearch),
         timeSlot |-> [startAt |-> startAt, endAt |-> endAt,
                       duration |-> DiffMinutes(endAt, startAt)]]

\* the locals of _getAvailableTimeSlotsForShift before its loop
SweepBeforeSlot(cfg) == OrElse(cfg.minAvailableTimeBeforeSlot, 0)

\* the local the source names minAvailableTimeAfterSlot
SweepAfterSlot(cfg) ==
    cfg.timeSlotDuration[1] + OrElse(cfg.minAvailableTimeBeforeSlot, 0)

SearchEndMoment(cfg, toMoment) == SubtractMinutes(toMoment, SweepAfterSlot(cfg))

FilteringMin(cfg, fromMoment0) == SubtractMinutes(fromMoment0, SweepBeforeSlot(cfg))

FilteringMax(cfg, toMoment) == AddMinutes(toMoment, SweepAfterSlot(cfg))

\* cleanedList.findIndex((event) => event.endAt.isAfter(searchMoment))
FindFirstNotEnded(events, moment) ==
    LET notEnded == {i \in 1..Len(events) : IsAfter(events[i].endAt, moment)}
    IN  IF notEnded = {} THEN -1
        ELSE (CHOOSE i \in notEnded : \A j \in notEnded : i <= j) - 1

(***************************************************************************)
(* The inputs of a call                                                    *)
(***************************************************************************)
\* the longest search window, in days
MaxDays == 2

\* the most unavailable periods a configuration holds
MaxPeriods == 2

\* the "HH:mm" string of an hour and a minute
HHmm(h, mi) == <<h \div 10, h % 10, mi \div 10, mi % 10>>

Shift(startHour, startMinute, endHour, endMinute) ==
    [startTime |-> HHmm(startHour, startMinute),
     endTime |-> HHmm(endHour, endMinute)]

\* 2020-10-16, a Friday
SearchDay == DateTime(2020, 9, 16, 0, 0)

AvailablePeriodsChoices ==
    { <<[isoWeekDay |-> 5, shifts |-> <<Shift(9, 58, 10, 40)>>]>>,
      <<[isoWeekDay |-> 5, shifts |-> <<Shift(10, 45, 11, 15), Shift(9, 58, 10, 40)>>],
        [isoWeekDay |-> 6, shifts |-> <<Shift(23, 40, 23, 59)>>]>>,
      <<[isoWeekDay |-> 5, shifts |-> <<Shift(23, 40, 23, 59)>>],
        [isoWeekDay |-> 6, shifts |-> <<Shift(0, 0, 0, 20)>>]>>,
      <<[isoWeekDay |-> 5, shifts |-> <<Shift(9, 58, 10, 40), Shift(10, 40, 11, 0)>>]>> }

PeriodMoment(year, month, day, hour, minute) ==
    [year |-> year, month |-> month, day |-> day, hour |-> hour, minute |-> minute]

PeriodChoices ==
    { [startAt |-> PeriodMoment(Some(2020), 9, 16, Some(10), None),
       endAt |-> PeriodMoment(Some(2020), 9, 16, Some(10), Some(31))],
      [startAt |-> PeriodMoment(Some(2020), 9, 16, Some(10), Some(10)),
       endAt |-> PeriodMoment(Some(2020), 9, 16, Some(10), Some(20))],
      [startAt |-> PeriodMoment(None, 9, 16, Some(10), Some(45)),
       endAt |-> PeriodMoment(None, 9, 16, Some(11), Some(30))],
      [startAt |-> PeriodMoment(None, 9, 17, None, None),
       endAt |-> PeriodMoment(None, 9, 17, None, None)] }

RECURSIVE SeqOfSet(_)
SeqOfSet(set) ==
    IF set = {} THEN <<>>
    ELSE LET x == CHOOSE y \in set : TRUE
         IN  <<x>> \o SeqOfSet(set \ {x})

UnavailablePeriodsChoices ==
    {None} \cup {Some(SeqOfSet(periods)) :
                    periods \in {ps \in SUBSET PeriodChoices : Cardinality(ps) <= MaxPeriods}}

\* 5-minute slots under every list of unavailable periods, 15-minute slots
\* under none of them or all of them
Configurations ==
    {cfg \in [timeSlotDuration : {Some(5), Some(15)},
              availablePeriods : AvailablePeriodsChoices,
              slotStartMinuteStep : {None, Some(7), Some(30)},
              unavailablePeriods :
                  UnavailablePeriodsChoices \cup {Some(SeqOfSet(PeriodChoices))},
              minAvailableTimeBeforeSlot : {None, Some(7)},
              minAvailableTimeAfterSlot : {None, Some(30)},
              minTimeBeforeFirstSlot : {None, Some(30)},
              maxDaysBeforeLastSlot : {None, Some(1)},
              timeZone : {"Europe/Paris"}] :
        cfg.timeSlotDuration = Some(15) =>
            cfg.unavailablePeriods \in {None, Some(SeqOfSet(PeriodChoices))}}

\* every step the validation allows, under fewer other settings
StepConfigurations ==
    [timeSlotDuration : {Some(5)},
     availablePeriods : AvailablePeriodsChoices,
     slotStartMinuteStep :
         {Some(step) : step \in MinSlotStartMinuteStep..MaxSlotStartMinuteStep},
     unavailablePeriods : {None, Some(SeqOfSet(PeriodChoices))},
     minAvailableTimeBeforeSlot : {None, Some(7)},
     minAvailableTimeAfterSlot : {None},
     minTimeBeforeFirstSlot : {None},
     maxDaysBeforeLastSlot : {None},
     timeZone : {"Europe/Paris"}]

\* Thursday 18:00:00.000 and Friday 09:30:12.592
NowChoices ==
    {Moment(SearchDay.min - 6 * 60, 0), Moment(SearchDay.min + 9 * 60 + 30, 12592)}

FromChoices == {SearchDay, Moment(SearchDay.min + 10 * 60, 500)}

\* Friday 10:20 and the end of the last day of the window
ToChoices ==
    {Moment(SearchDay.min + 10 * 60 + 20, 0)}
        \cup {EndOfDay(AddDays(SearchDay, k)) : k \in 0..(MaxDays - 1)}

\* windows that end when or before they start
EmptyToChoices == {AddDays(SearchDay, -1), SearchDay}

\* 2021-01-01, a Friday, the first day of a year
NewYearDay == DateTime(2021, 0, 1, 0, 0)

\* periods without a year: the morning of 1 January; 20 December to
\* 5 January and to 5 February, over the end of the year; all of
\* 31 December
YearlyPeriodChoices ==
    { [startAt |-> PeriodMoment(None, 0, 1, Some(10), None),
       endAt |-> PeriodMoment(None, 0, 1, Some(10), Some(31))],
      [startAt |-> PeriodMoment(None, 11, 20, None, None),
       endAt |-> PeriodMoment(None, 0, 5, None, None)],
      [startAt |-> PeriodMoment(None, 11, 20, None, None),
       endAt |-> PeriodMoment(None, 1, 5, None, None)],
      [startAt |-> PeriodMoment(None, 11, 31, None, None),
       endAt |-> PeriodMoment(None, 11, 31, None, None)] }

\* the same shift on Thursdays and Fridays, one yearly period blocked
YearEndConfigurations ==
    [timeSlotDuration : {Some(15)},
     availablePeriods :
         { <<[isoWeekDay |-> 4, shifts |-> <<Shift(9, 58, 10, 40)>>],
             [isoWeekDay |-> 5, shifts |-> <<Shift(9, 58, 10, 40)>>]>> },
     slotStartMinuteStep : {None},
     unavailablePeriods : {Some(<<period>>) : period \in YearlyPeriodChoices},
     minAvailableTimeBeforeSlot : {None},
     minAvailableTimeAfterSlot : {None},
     minTimeBeforeFirstSlot : {None},
     maxDaysBeforeLastSlot : {None},
     timeZone : {"Europe/Paris"}]

\* searches over the last day of 2020 and the first of 2021, called on
\* Wednesday 2020-12-30 at 18:00 or as 2021 begins
YearEndCalls ==
    [configuration : YearEndConfigurations,
     from : {AddDays(NewYearDay, -1), NewYearDay},
     to : {EndOfDay(NewYearDay)},
     now : {Moment(NewYearDay.min - 30 * 60, 0), NewYearDay}]

\* periods of Friday 2020-10-16 that start or end together
TiedPeriodChoices ==
    { [startAt |-> PeriodMoment(Some(2020), 9, 16, Some(10), None),
       endAt |-> PeriodMoment(Some(2020), 9, 16, Some(10), Some(31))],
      [startAt |-> PeriodMoment(Some(2020), 9, 16, Some(10), Some(20)),
       endAt |-> PeriodMoment(Some(2020), 9, 16, Some(10), Some(31))],
      [startAt |-> PeriodMoment(Some(2020), 9, 16, Some(10), None),
       endAt |-> PeriodMoment(Some(2020), 9, 16, Some(10), Some(20))] }

\* 5-minute slots on Fridays, under lists of such periods where one period
\* may come twice
TiedConfigurations ==
    [timeSlotDuration : {Some(5)},
     availablePeriods : {<<[isoWeekDay |-> 5, shifts |-> <<Shift(9, 58, 10, 40)>>]>>},
     slotStartMinuteStep : {None},
     unavailablePeriods :
         {Some(periods) :
             periods \in UNION {[1..k -> TiedPeriodChoices] : k \in 1..MaxPeriods}},
     minAvailableTimeBeforeSlot : {None},
     minAvailableTimeAfterSlot : {None},
     minTimeBeforeFirstSlot : {None},
     maxDaysBeforeLastSlot : {None},
     timeZone : {"Europe/Paris"}]

\* searches of that Friday, called on the Thursday at 18:00
TiedCalls ==
    [configuration : TiedConfigurations,
     from : {SearchDay},
     to : {EndOfDay(SearchDay)},
     now : {Moment(SearchDay.min - 6 * 60, 0)}]

\* the calls modelled: configuration, from, to and the current instant
Calls ==
    YearEndCalls
    \cup
    TiedCalls
    \cup
    [configuration : Configurations, from : FromChoices, to : ToChoices,
     now : NowChoices]
    \cup
    [configuration : StepConfigurations, from : {SearchDay},
     to : {EndOfDay(AddDays(SearchDay, MaxDays - 1))},
     now : {Moment(SearchDay.min - 6 * 60, 0)}]
    \cup
    [configuration :
         {cfg \in StepConfigurations :
             cfg.slotStartMinuteStep = Some(DefaultSlotStartMinuteStep)},
     from : FromChoices, to : EmptyToChoices, now : NowChoices]

(***************************************************************************)
(* getAvailableTimeSlotsInCalendar, step by step                           *)
(***************************************************************************)
\* the luxon implementation at the entry of its getAvailableTimeSlotsInCalendar
LuxonEntry ==
    [pc |-> "start", usedConfig |-> <<>>, eventList |-> <<>>,
     firstFromMoment |-> <<>>, lastToMoment |-> <<>>, fromMoment |-> <<>>,
     dayShifts |-> <<>>, shiftIndex |-> 1, from |-> <<>>, to |-> <<>>,
     startMoment |-> <<>>, endMoment |-> <<>>, shiftSlots |-> <<>>,
     timeSlots |-> <<>>]

\* the state at the entry of one call
CallEntry(call) ==
    /\ configuration = call.configuration
    /\ from = call.from
    /\ to = call.to
    /\ now = call.now
    /\ pc = "start"
    /\ usedConfig = configuration
    /\ eventList = <<>>
    /\ firstFromMoment = from
    /\ lastToMoment = to
    /\ fromMoment = from
    /\ dayShifts = <<>>
    /\ shiftIndex = 1
    /\ partialFrom = from
    /\ partialTo = to
    /\ cleanedList = <<>>
    /\ eventIndex = -1
    /\ searchMoment = from
    /\ shiftSlots = <<>>
    /\ timeSlots = <<>>
    /\ subject = <<>>
    /\ outcome = <<>>
    /\ luxon = LuxonEntry

Init == \E call \in Calls : CallEntry(call)

\* the configuration _checkSearchParameters validates and returns
MergedConfiguration(cfg) ==
    [cfg EXCEPT !.availablePeriods =
        _mergeOverlappingShiftsInAvailablePeriods(cfg.availablePeriods)]

\* whether _checkSearchParameters throws
SearchParametersInvalid(cfg, fromDate, toDate, today) ==
    \/ IsAfter(fromDate, toDate)
    \/ \E merged \in {MergedConfiguration(cfg)} :
           ~isConfigurationValid(merged, today)

CheckSearchParametersThrows ==
    /\ pc = "start"
    /\ SearchParametersInvalid(configuration, from, to, now)
    /\ pc' = "threw"
    /\ UNCHANGED <<luxon, subject, outcome, configuration, from, to, now, usedConfig, eventList,
                   firstFromMoment, lastToMoment, fromMoment, dayShifts,
                   shiftIndex, partialFrom, partialTo, cleanedList, eventIndex,
                   searchMoment, shiftSlots, timeSlots>>

\* the merged shifts written back into the caller's configuration
StartSearch_MergesInPlace ==
    /\ pc = "start"
    /\ ~SearchParametersInvalid(configuration, from, to, now)
    /\ configuration' = MergedConfiguration(configuration)
    /\ usedConfig' = configuration'
    /\ eventList' = _getUnavailablePeriodAsEvents(
                        OrElse(usedConfig'.unavailablePeriods, <<>>), now)
    /\ LET boundaries == _computeBoundaries(from, to, usedConfig', now)
       IN  /\ firstFromMoment' = boundaries.firstFromMoment
           /\ lastToMoment' = boundaries.lastToMoment
           /\ fromMoment' = boundaries.firstFromMoment
    /\ pc' = "day"
    /\ UNCHANGED <<luxon, subject, outcome, from, to, now, dayShifts, shiftIndex,
                   partialFrom, partialTo, cleanedList, eventIndex,
                   searchMoment, shiftSlots, timeSlots>>

\* _checkSearchParameters returns; the events and the boundaries are computed
StartSearch ==
    /\ pc = "start"
    /\ ~SearchParametersInvalid(configuration, from, to, now)
    /\ \E merged \in {MergedConfiguration(configuration)} :
       \E boundaries \in {_computeBoundaries(from, to, merged, now)} :
           /\ usedConfig' = merged
           /\ eventList' = _getUnavailablePeriodAsEvents(
                               OrElse(merged.unavailablePeriods, <<>>), now)
           /\ firstFromMoment' = boundaries.firstFromMoment
           /\ lastToMoment' = boundaries.lastToMoment
           /\ fromMoment' = boundaries.firstFromMoment
    /\ pc' = "day"
    /\ UNCHANGED <<luxon, subject, outcome, configuration, from, to, now, dayShifts, shiftIndex,
                   partialFrom, partialTo, cleanedList, eventIndex,
                   searchMoment, shiftSlots, timeSlots>>

\* the while loop of the days: one more day to process
EnterDay ==
    /\ pc = "day"
    /\ IsBefore(fromMoment, lastToMoment)
    /\ dayShifts' = _getWeekDayConfigForMoment(usedConfig, fromMoment)
    /\ shiftIndex' = 1
    /\ pc' = "shift"
    /\ UNCHANGED <<luxon, subject, outcome, configuration, from, to, now, usedConfig, eventList,
                   firstFromMoment, lastToMoment, fromMoment, partialFrom,
                   partialTo, cleanedList, eventIndex, searchMoment,
                   shiftSlots, timeSlots>>

\* the while loop of the days ends: the function returns timeSlots
Return ==
    /\ pc = "day"
    /\ ~IsBefore(fromMoment, lastToMoment)
    /\ pc' = "done"
    /\ UNCHANGED <<luxon, subject, outcome, configuration, from, to, now, usedConfig, eventList,
                   firstFromMoment, lastToMoment, fromMoment, dayShifts,
                   shiftIndex, partialFrom, partialTo, cleanedList, eventIndex,
                   searchMoment, shiftSlots, timeSlots>>

\* the boundaries of the shift being processed, clipped to the global ones
ShiftWindow ==
    LET moments == _getMomentsFromShift(fromMoment, dayShifts[shiftIndex])
    IN  [from |-> MaxMoment(firstFromMoment, moments.startAt),
         to |-> MinMoment(lastToMoment, moments.endAt)]

\* forEach: the shift's window is empty
SkipShift ==
    /\ pc = "shift"
    /\ shiftIndex <= Len(dayShifts)
    /\ ~IsSameOrBefore(ShiftWindow.from, ShiftWindow.to)
    /\ shiftIndex' = shiftIndex + 1
    /\ UNCHANGED <<luxon, subject, outcome, configuration, from, to, now, pc, usedConfig, eventList,
                   firstFromMoment, lastToMoment, fromMoment, dayShifts,
                   partialFrom, partialTo, cleanedList, eventIndex,
                   searchMoment, shiftSlots, timeSlots>>

\* forEach: _getAvailableTimeSlotsForShift is called, up to its loop
StartShift ==
    /\ pc = "shift"
    /\ shiftIndex <= Len(dayShifts)
    /\ IsSameOrBefore(ShiftWindow.from, ShiftWindow.to)
    /\ partialFrom' = ShiftWindow.from
    /\ partialTo' = ShiftWindow.to
    /\ searchMoment' = SubtractMinutes(partialFrom', SweepBeforeSlot(usedConfig))
    /\ cleanedList' \in _prepareEvents(eventList,
                                       FilteringMin(usedConfig, partialFrom'),
                                       FilteringMax(usedConfig, partialTo'))
    /\ eventIndex' = FindFirstNotEnded(cleanedList', searchMoment')
    /\ shiftSlots' = <<>>
    /\ pc' = "sweep"
    /\ UNCHANGED <<luxon, subject, outcome, configuration, from, to, now, usedConfig, eventList,
                   firstFromMoment, lastToMoment, fromMoment, dayShifts,
                   shiftIndex, timeSlots>>

\* forEach is over: one day forward
EndDay ==
    /\ pc = "shift"
    /\ shiftIndex > Len(dayShifts)
    /\ fromMoment' = StartOfDay(AddDays(fromMoment, 1))
    /\ pc' = "day"
    /\ UNCHANGED <<luxon, subject, outcome, configuration, from, to, now, usedConfig, eventList,
                   firstFromMoment, lastToMoment, dayShifts, shiftIndex,
                   partialFrom, partialTo, cleanedList, eventIndex,
                   searchMoment, shiftSlots, timeSlots>>

\* the sweep's loop condition
SweepContinues ==
    IsSameOrBefore(searchMoment, SearchEndMoment(usedConfig, partialTo))

\* focusedEvent is not null
HasFocusedEvent == eventIndex >= 0 /\ eventIndex < Len(cleanedList)

FocusedEvent == cleanedList[eventIndex + 1]

\* searchMoment after _nextSearchMoment
RoundedSearchMoment == _nextSearchMoment(searchMoment, usedConfig)

FreeTimeLimitMoment ==
    AddMinutes(RoundedSearchMoment, _getMinTimeWindowNeeded(usedConfig))

FocusedEventTooSoon ==
    HasFocusedEvent /\ IsBefore(FocusedEvent.startAt, FreeTimeLimitMoment)

\* one iteration of the sweep: the focused event starts too soon
SkipEvent ==
    /\ pc = "sweep"
    /\ SweepContinues
    /\ FocusedEventTooSoon
    /\ searchMoment' = FocusedEvent.endAt
    /\ eventIndex' = eventIndex + 1
    /\ UNCHANGED <<luxon, subject, outcome, configuration, from, to, now, pc, usedConfig, eventList,
                   firstFromMoment, lastToMoment, fromMoment, dayShifts,
                   shiftIndex, partialFrom, partialTo, cleanedList,
                   shiftSlots, timeSlots>>

\* one iteration of the sweep: a slot is found
PushSlot ==
    /\ pc = "sweep"
    /\ SweepContinues
    /\ ~FocusedEventTooSoon
    /\ LET pushed == _pushNewSlot(RoundedSearchMoment, usedConfig)
       IN  /\ shiftSlots' = Append(shiftSlots, pushed.timeSlot)
           /\ searchMoment' = pushed.newSearchMoment
    /\ UNCHANGED <<luxon, subject, outcome, configuration, from, to, now, pc, usedConfig, eventList,
                   firstFromMoment, lastToMoment, fromMoment, dayShifts,
                   shiftIndex, partialFrom, partialTo, cleanedList,
                   eventIndex, timeSlots>>

\* the sweep is over: its slots are pushed to the result
EndShift ==
    /\ pc = "sweep"
    /\ ~SweepContinues
    /\ timeSlots' = timeSlots \o shiftSlots
    /\ shiftIndex' = shiftIndex + 1
    /\ pc' = "shift"
    /\ UNCHANGED <<luxon, subject, outcome, configuration, from, to, now, usedConfig, eventList,
                   firstFromMoment, lastToMoment, fromMoment, dayShifts,
                   partialFrom, partialTo, cleanedList, eventIndex,
                   searchMoment, shiftSlots>>

Next ==
    \/ CheckSearchParametersThrows
    \/ StartSearch
    \/ EnterDay
    \/ Return
    \/ SkipShift
    \/ StartShift
    \/ EndDay
    \/ SkipEvent
    \/ PushSlot
    \/ EndShift

Spec == Init /\ [][Next]_vars

(***************************************************************************)
(* getAvailableTimeSlotsInCalendar of the luxon implementation             *)
(* (src/unnamed/part_000), called with the same parameters at the same     *)
(* instant once the dayjs call is over.  Its locals are the fields of the  *)
(* variable luxon.                                                         *)
(***************************************************************************)
\* a luxon DateTime that is not valid
InvalidDateTime == [invalid |-> TRUE]

IsValidDateTime(dateTime) == DOMAIN dateTime = {"min", "ms"}

\* DateTime.fromObject(periodMoment, {zone}): the months are counted from
\* 1, a missing year is the current year, a missing hour or minute is 0
LuxonFromObject(periodMoment, today) ==
    IF LuxonObjectIsValid(periodMoment, today)
    THEN DateTime(OrElse(periodMoment.year, YearOf(today)),
                  periodMoment.month - 1, periodMoment.day,
                  OrElse(periodMoment.hour, 0), OrElse(periodMoment.minute, 0))
    ELSE InvalidDateTime

Luxon_getUnavailablePeriodAsEvents(periods, today) ==
    [i \in 1..Len(periods) |->
        [startAt |-> LuxonFromObject(periods[i].startAt, today),
         endAt |-> LuxonFromObject(periods[i].endAt, today)]]

\* Interval.fromDateTimes(start, end).isValid
IntervalIsValid(start, end) ==
    /\ IsValidDateTime(start)
    /\ IsValidDateTime(end)
    /\ IsSameOrBefore(start, end)

\* Interval.fromDateTimes(start, end).engulfs(
\*     Interval.fromDateTimes(event.startAt, event.endAt))
Engulfs(start, end, event) ==
    /\ IntervalIsValid(start, end)
    /\ IntervalIsValid(event.startAt, event.endAt)
    /\ IsSameOrBefore(start, event.startAt)
    /\ IsSameOrBefore(event.endAt, end)

\* fromMoment.set({hour, minute, second: 0, millisecond: 0}) for the two
\* times of the shift; the result of endAt.plus({days: 1}) is dropped
Luxon_getMomentsFromShift(moment, shift) ==
    [startAt |-> Moment(StartOfDay(moment).min + 60 * ParseHour(shift.startTime)
                            + ParseMinute(shift.startTime), 0),
     endAt |-> Moment(StartOfDay(moment).min + 60 * ParseHour(shift.endTime)
                          + ParseMinute(shift.endTime), 0)]

\* _checkSearchParameters: "ok" where it returns, else the error thrown
LuxonSearchParametersError(cfg, fromDate, toDate, today) ==
    IF LuxonConfigurationError(cfg, today) # "ok"
    THEN LuxonConfigurationError(cfg, today)
    ELSE IF ~IsBefore(fromDate, toDate) THEN "Invalid date parameters"
    ELSE "ok"

\* the slots of one shift window beyond which a sweep is not followed; no
\* shift window of the calls modelled has room for that many
MaxShiftSlots == 16

\* the dayjs call has returned or thrown
DayjsCallOver == pc \in {"done", "threw"}

LuxonOnly ==
    UNCHANGED <<configuration, from, to, now, pc, usedConfig, eventList,
                firstFromMoment, lastToMoment, fromMoment, dayShifts,
                shiftIndex, partialFrom, partialTo, cleanedList, eventIndex,
                searchMoment, shiftSlots, timeSlots, subject, outcome>>

LuxonCheckSearchParametersThrows ==
    /\ DayjsCallOver
    /\ luxon.pc = "start"
    /\ LuxonSearchParametersError(configuration, from, to, now) # "ok"
    /\ luxon' = [luxon EXCEPT !.pc = "threw"]
    /\ LuxonOnly

\* _checkSearchParameters returns; the events and the boundaries are computed
LuxonStartSearch ==
    /\ DayjsCallOver
    /\ luxon.pc = "start"
    /\ LuxonSearchParametersError(configuration, from, to, now) = "ok"
    /\ \E merged \in {MergedConfiguration(configuration)} :
       \E boundaries \in {_computeBoundaries(from, to, merged, now)} :
           luxon' = [luxon EXCEPT
                        !.pc = "day",
                        !.usedConfig = merged,
                        !.eventList =
                            Luxon_getUnavailablePeriodAsEvents(
                                OrElse(merged.unavailablePeriods, <<>>), now),
                        !.firstFromMoment = boundaries.firstFromMoment,
                        !.lastToMoment = boundaries.lastToMoment,
                        !.fromMoment = boundaries.firstFromMoment]
    /\ LuxonOnly

\* the while loop of the days: one more day to process
LuxonEnterDay ==
    /\ luxon.pc = "day"
    /\ IsBefore(luxon.fromMoment, luxon.lastToMoment)
    /\ luxon' = [luxon EXCEPT
                    !.pc = "shift",
                    !.dayShifts = _getWeekDayConfigForMoment(luxon.usedConfig,
                                                             luxon.fromMoment),
                    !.shiftIndex = 1]
    /\ LuxonOnly

\* the while loop of the days ends: the function returns timeSlots
LuxonReturn ==
    /\ luxon.pc = "day"
    /\ ~IsBefore(luxon.fromMoment, luxon.lastToMoment)
    /\ luxon' = [luxon EXCEPT !.pc = "done"]
    /\ LuxonOnly

\* the boundaries of the shift being processed, clipped to the global ones
LuxonShiftWindow ==
    LET moments == Luxon_getMomentsFromShift(luxon.fromMoment,
                                             luxon.dayShifts[luxon.shiftIndex])
    IN  [from |-> MaxMoment(luxon.firstFromMoment, moments.startAt),
         to |-> MinMoment(luxon.lastToMoment, moments.endAt)]

\* forEach: partialFrom >= partialTo
LuxonSkipShift ==
    /\ luxon.pc = "shift"
    /\ luxon.shiftIndex <= Len(luxon.dayShifts)
    /\ ~IsBefore(LuxonShiftWindow.from, LuxonShiftWindow.to)
    /\ luxon' = [luxon EXCEPT !.shiftIndex = @ + 1]
    /\ LuxonOnly

\* timeSlotDuration as plus({minutes: ...}) reads it: nothing added when absent
LuxonDuration == OrElse(luxon.usedConfig.timeSlotDuration, 0)

\* forEach: _getAvailableTimeSlotsForShift is called, up to its loop
LuxonStartShift ==
    /\ luxon.pc = "shift"
    /\ luxon.shiftIndex <= Len(luxon.dayShifts)
    /\ IsBefore(LuxonShiftWindow.from, LuxonShiftWindow.to)
    /\ luxon' = [luxon EXCEPT
                    !.pc = "sweep",
                    !.from = LuxonShiftWindow.from,
                    !.to = LuxonShiftWindow.to,
                    !.startMoment = LuxonShiftWindow.from,
                    !.endMoment = AddMinutes(LuxonShiftWindow.from, LuxonDuration),
                    !.shiftSlots = <<>>]
    /\ LuxonOnly

\* forEach is over: one day forward
LuxonEndDay ==
    /\ luxon.pc = "shift"
    /\ luxon.shiftIndex > Len(luxon.dayShifts)
    /\ luxon' = [luxon EXCEPT
                    !.pc = "day",
                    !.fromMoment = StartOfDay(AddDays(luxon.fromMoment, 1))]
    /\ LuxonOnly

\* the sweep's loop condition
LuxonSweepContinues == IsSameOrBefore(luxon.endMoment, luxon.to)

\* no event lies whole inside the candidate slot
LuxonSlotIsFree ==
    \A e \in 1..Len(luxon.eventList) :
        ~Engulfs(luxon.startMoment, luxon.endMoment, luxon.eventList[e])

\* the end of an iteration: the candidate moves on by the length of the
\* slot interval
LuxonNextCandidate(locals) ==
    LET nextStart == AddMinutes(luxon.startMoment,
                                DiffMinutes(luxon.endMoment, luxon.startMoment))
    IN  [locals EXCEPT !.startMoment = nextStart,
                       !.endMoment = AddMinutes(nextStart, LuxonDuration)]

\* one iteration of the sweep: the candidate is pushed
LuxonPushSlot ==
    /\ luxon.pc = "sweep"
    /\ LuxonSweepContinues
    /\ LuxonSlotIsFree
    /\ Len(luxon.shiftSlots) < MaxShiftSlots
    /\ luxon' = LuxonNextCandidate(
                    [luxon EXCEPT !.shiftSlots =
                        Append(@, [startAt |-> luxon.startMoment,
                                   endAt |-> luxon.endMoment,
                                   duration |-> DiffMinutes(luxon.endMoment,
                                                            luxon.startMoment)])])
    /\ LuxonOnly

\* one iteration of the sweep: the candidate holds an event
LuxonSkipSlot ==
    /\ luxon.pc = "sweep"
    /\ LuxonSweepContinues
    /\ ~LuxonSlotIsFree
    /\ luxon' = LuxonNextCandidate(luxon)
    /\ LuxonOnly

\* the sweep is over: its slots are pushed to the result
LuxonEndShift ==
    /\ luxon.pc = "sweep"
    /\ ~LuxonSweepContinues
    /\ luxon' = [luxon EXCEPT !.pc = "shift",
                              !.timeSlots = @ \o luxon.shiftSlots,
                              !.shiftIndex = @ + 1]
    /\ LuxonOnly

NextLuxon ==
    \/ LuxonCheckSearchParametersThrows
    \/ LuxonStartSearch
    \/ LuxonEnterDay
    \/ LuxonReturn
    \/ LuxonSkipShift
    \/ LuxonStartShift
    \/ LuxonEndDay
    \/ LuxonPushSlot
    \/ LuxonSkipSlot
    \/ LuxonEndShift

(***************************************************************************)
(* Calls to the exported helpers: _mergeOverlappingShifts,                 *)
(* _isUnavailablePeriodValid and isConfigurationValid                      *)
(***************************************************************************)
\* the most shifts a list handed to _mergeOverlappingShifts holds
MaxShifts == 3

\* the times of day the shifts are made of
TimeChoices == {HHmm(0, 0), HHmm(9, 58), HHmm(10, 5), HHmm(10, 40), HHmm(23, 59)}

\* every shift over TimeChoices, well-formed or not
AnyShifts == [startTime : TimeChoices, endTime : TimeChoices]

\* the shifts _isShiftValid accepts
WellFormedShifts == {shift \in AnyShifts : _isShiftValid(shift)}

\* the lists of 0..n elements of a set
ListsUpTo(set, n) == UNION {[1..k -> set] : k \in 0..n}

ShiftLists == ListsUpTo(WellFormedShifts, MaxShifts)

\* the search of the calendar is not running during these calls
NoSearch ==
    /\ configuration = <<>>
    /\ from = <<>>
    /\ to = <<>>
    /\ usedConfig = <<>>
    /\ eventList = <<>>
    /\ firstFromMoment = <<>>
    /\ lastToMoment = <<>>
    /\ fromMoment = <<>>
    /\ dayShifts = <<>>
    /\ shiftIndex = 1
    /\ partialFrom = <<>>
    /\ partialTo = <<>>
    /\ cleanedList = <<>>
    /\ eventIndex = -1
    /\ searchMoment = <<>>
    /\ shiftSlots = <<>>
    /\ timeSlots = <<>>
    /\ luxon = <<>>

SearchUnchanged ==
    UNCHANGED <<luxon, configuration, from, to, now, usedConfig, eventList,
                firstFromMoment, lastToMoment, fromMoment, dayShifts,
                shiftIndex, partialFrom, partialTo, cleanedList, eventIndex,
                searchMoment, shiftSlots, timeSlots>>

\* a caller is about to call _mergeOverlappingShifts(subject)
InitMerge ==
    /\ pc = "_mergeOverlappingShifts"
    /\ subject \in ShiftLists
    /\ now = Moment(SearchDay.min - 6 * 60, 0)

\* _mergeOverlappingShifts(subject) returns a new list; [...shifts] is
\* copied before it is sorted and spliced
CallMergeOverlappingShifts ==
    /\ pc = "_mergeOverlappingShifts"
    /\ outcome' = _mergeOverlappingShifts(subject)
    /\ pc' = "merged"
    /\ UNCHANGED subject
    /\ SearchUnchanged

\* a configuration every check accepts
BaseConfiguration ==
    [timeSlotDuration |-> Some(15),
     availablePeriods |-> <<[isoWeekDay |-> 5, shifts |-> <<Shift(9, 58, 10, 40)>>]>>,
     slotStartMinuteStep |-> None,
     unavailablePeriods |-> None,
     minAvailableTimeBeforeSlot |-> None,
     minAvailableTimeAfterSlot |-> None,
     minTimeBeforeFirstSlot |-> None,
     maxDaysBeforeLastSlot |-> None,
     timeZone |-> "Europe/Paris"]

\* values on both sides of every limit _checkPrimitiveValue tests
PrimitiveConfigurations ==
    [timeSlotDuration : {None, Some(0), Some(15)},
     availablePeriods : {BaseConfiguration.availablePeriods},
     slotStartMinuteStep : {None, Some(0), Some(30), Some(31)},
     unavailablePeriods : {None},
     minAvailableTimeBeforeSlot : {None, Some(-1), Some(0)},
     minAvailableTimeAfterSlot : {None, Some(-1), Some(0)},
     minTimeBeforeFirstSlot : {None, Some(-1), Some(2 * MinutesPerDay + 1)},
     maxDaysBeforeLastSlot : {None, Some(0), Some(2)},
     timeZone : {"", "Mars/Olympus", "Europe/Paris"}]

\* one available period holding the shifts, on a weekday that exists or not
ShiftConfigurations ==
    {[BaseConfiguration EXCEPT
          !.availablePeriods = <<[isoWeekDay |-> weekDay, shifts |-> shifts]>>] :
        weekDay \in {0, 5, 8},
        shifts \in ShiftLists \cup ListsUpTo(AnyShifts, 2)}

\* the ends of the unavailable periods: February and October, with and
\* without a year, an hour, a minute
PeriodMoments ==
    [year : {None, Some(2020), Some(2021)}, month : {1, 9}, day : {16, 29, 30},
     hour : {None, Some(10)}, minute : {None, Some(30)}]

Periods == [startAt : PeriodMoments, endAt : PeriodMoments]

PeriodConfigurations ==
    {[BaseConfiguration EXCEPT !.unavailablePeriods = Some(<<period>>)] :
        period \in {p \in Periods : p.startAt.day = 16 /\ p.endAt.hour = None}}

\* configurations with several defects at once: a duration of 0, no time
\* zone, a weekday or a shift that does not exist, an unavailable period on
\* February 30, a lead time of more than the two days of the horizon
DefectConfigurations ==
    {[BaseConfiguration EXCEPT
          !.timeSlotDuration = duration,
          !.timeZone = zone,
          !.availablePeriods = <<[isoWeekDay |-> weekDay, shifts |-> <<shift>>]>>,
          !.unavailablePeriods = periods,
          !.minTimeBeforeFirstSlot = lead,
          !.maxDaysBeforeLastSlot = Some(2)] :
        duration \in {Some(0), Some(15)},
        zone \in {"", "Europe/Paris"},
        weekDay \in {5, 8},
        shift \in {Shift(9, 58, 10, 40), Shift(10, 40, 9, 58)},
        periods \in {None,
                     Some(<<[startAt |-> [year |-> None, month |-> 1, day |-> 30,
                                          hour |-> None, minute |-> None],
                             endAt |-> [year |-> None, month |-> 9, day |-> 16,
                                        hour |-> None, minute |-> None]]>>)},
        lead \in {None, Some(2 * MinutesPerDay + 1)}}

\* a day of 2020, a leap year, and the same day of 2021
TodayChoices == {SearchDay, DateTime(2021, 9, 16, 0, 0)}

\* a caller is about to call isConfigurationValid(subject), in the dayjs or
\* in the luxon implementation
InitValidate ==
    /\ pc \in {"isConfigurationValid", "isConfigurationValid (luxon)"}
    /\ \/ subject \in PrimitiveConfigurations \cup ShiftConfigurations
                         \cup DefectConfigurations
          /\ now = SearchDay
       \/ subject \in PeriodConfigurations
          /\ now \in TodayChoices

\* what a call returned, or the message of the TimeSlotsFinderError thrown
Returns(value) == [returns |-> value]

Throws(message) == [throws |-> message]

\* isConfigurationValid(subject) of src/src/time-slots-dayjs.ts
CallIsConfigurationValid ==
    /\ pc = "isConfigurationValid"
    /\ outcome' = IF ConfigurationError(subject, now) = "ok"
                  THEN Returns(TRUE)
                  ELSE Throws(ConfigurationError(subject, now))
    /\ pc' = "validated"
    /\ UNCHANGED subject
    /\ SearchUnchanged

\* isConfigurationValid(subject) of the luxon implementation
CallIsConfigurationValidLuxon ==
    /\ pc = "isConfigurationValid (luxon)"
    /\ outcome' = IF LuxonConfigurationError(subject, now) = "ok"
                  THEN Returns(TRUE)
                  ELSE Throws(LuxonConfigurationError(subject, now))
    /\ pc' = "validated (luxon)"
    /\ UNCHANGED subject
    /\ SearchUnchanged

\* a caller is about to call _isUnavailablePeriodValid(subject)
InitPeriod ==
    /\ pc = "_isUnavailablePeriodValid"
    /\ subject \in Periods
    /\ now \in TodayChoices

CallIsUnavailablePeriodValid ==
    /\ pc = "_isUnavailablePeriodValid"
    /\ outcome' = Returns(_isUnavailablePeriodValid(subject, now))
    /\ pc' = "period checked"
    /\ UNCHANGED subject
    /\ SearchUnchanged

InitHelpers ==
    /\ NoSearch
    /\ outcome = <<>>
    /\ (InitMerge \/ InitValidate \/ InitPeriod)

NextHelpers ==
    \/ CallMergeOverlappingShifts
    \/ CallIsConfigurationValid
    \/ CallIsConfigurationValidLuxon
    \/ CallIsUnavailablePeriodValid

Helpers == InitHelpers /\ [][NextHelpers]_vars

\* every call modelled: the search of the calendar and the helpers
InitAllCalls == Init \/ InitHelpers

NextAllCalls == Next \/ NextHelpers

AllCalls == InitAllCalls /\ [][NextAllCalls]_vars

(***************************************************************************)
(* The same call made to both implementations                              *)
(***************************************************************************)
\* a period without an hour on 17 November, which luxon's count of the
\* months places on 17 October
NovemberDay ==
    [startAt |-> PeriodMoment(None, 10, 17, None, None),
     endAt |-> PeriodMoment(None, 10, 17, None, None)]

\* the configurations handed to both implementations: buffers, a step and
\* unavailable periods, each configured or not
ComparedConfigurations ==
    [timeSlotDuration : {Some(5), Some(15)},
     availablePeriods : AvailablePeriodsChoices,
     slotStartMinuteStep : {None, Some(30)},
     unavailablePeriods :
         {None, Some(SeqOfSet(PeriodChoices)), Some(<<NovemberDay>>)},
     minAvailableTimeBeforeSlot : {None, Some(7)},
     minAvailableTimeAfterSlot : {None, Some(30)},
     minTimeBeforeFirstSlot : {None},
     maxDaysBeforeLastSlot : {None},
     timeZone : {"Europe/Paris"}]

\* configurations without a usable timeSlotDuration
NoDurationConfigurations ==
    {[BaseConfiguration EXCEPT !.timeSlotDuration = duration] :
        duration \in {None, Some(0)}}

\* the calls made to both implementations
ComparedCalls ==
    [configuration : ComparedConfigurations, from : {SearchDay}, to : ToChoices,
     now : {Moment(SearchDay.min - 6 * 60, 0)}]
    \cup
    YearEndCalls
    \cup
    [configuration : NoDurationConfigurations \cup {BaseConfiguration},
     from : {SearchDay},
     to : EmptyToChoices \cup {EndOfDay(SearchDay)},
     now : {Moment(SearchDay.min - 6 * 60, 0)}]

InitImplementations == \E call \in ComparedCalls : CallEntry(call)

NextImplementations == Next \/ NextLuxon

\* the dayjs call, then the luxon call with the same parameters
Implementations == InitImplementations /\ [][NextImplementations]_vars

\* a call that can take a step takes one: the program runs on its own
FairImplementations == Implementations /\ WF_vars(NextImplementations)

(***************************************************************************)
(* The properties of the result                                            *)
(***************************************************************************)
Returned == pc = "done"

SlotIndices == 1..Len(timeSlots)

Before == OrElse(configuration.minAvailableTimeBeforeSlot, 0)

After == OrElse(configuration.minAvailableTimeAfterSlot, 0)

Step == OrElse(configuration.slotStartMinuteStep, DefaultSlotStartMinuteStep)

\* the closed intervals [a1, a2] and [b1, b2] share no inner instant
Disjoint(a1, a2, b1, b2) == IsSameOrBefore(a2, b1) \/ IsSameOrBefore(b2, a1)

\* C1: for a configuration isConfigurationValid accepts, no returned slot
\* overlaps a blocking event built from unavailablePeriods: the slot ends no
\* later than the event starts, or the event ends no later than the slot
\* starts.
C1_NoSlotOverlapsEvent ==
    (Returned /\ isConfigurationValid(configuration, now)) =>
        \A i \in SlotIndices : \A e \in 1..Len(eventList) :
            Disjoint(timeSlots[i].startAt, timeSlots[i].endAt,
                     eventList[e].startAt, eventList[e].endAt)

\* the merged shifts configured for the weekday of an instant
ShiftsOfDay(moment) == _getWeekDayConfigForMoment(usedConfig, moment)

\* the instant of an "HH:mm" time on the day of an instant
TimeOnDay(moment, time) ==
    SetHourMinute(StartOfDay(moment), ParseHour(time), ParseMinute(time))

SlotInsideShift(slot, shift) ==
    /\ IsSameOrBefore(TimeOnDay(slot.startAt, shift.startTime), slot.startAt)
    /\ IsSameOrBefore(slot.endAt,
                      MinMoment(lastToMoment, TimeOnDay(slot.startAt, shift.endTime)))

\* C2: every returned slot lies inside one merged shift configured for the
\* weekday of the slot's date, clipped to the global window: shift start <=
\* slot start and slot end <= min(lastTo, shift end).
C2_SlotInsideShift ==
    Returned =>
        \A i \in SlotIndices :
            \E k \in 1..Len(ShiftsOfDay(timeSlots[i].startAt)) :
                SlotInsideShift(timeSlots[i], ShiftsOfDay(timeSlots[i].startAt)[k])

\* max(from, now + minAvailableTimeBeforeSlot + minTimeBeforeFirstSlot)
FirstFrom ==
    MaxMoment(from,
              AddMinutes(now, Before + OrElse(configuration.minTimeBeforeFirstSlot, 0)))

\* C3: no returned slot starts before firstFrom = max(from, now +
\* minAvailableTimeBeforeSlot + minTimeBeforeFirstSlot).
C3_NoSlotBeforeFirstFrom ==
    Returned =>
        \A i \in SlotIndices : IsSameOrBefore(FirstFrom, timeSlots[i].startAt)

\* C4: with maxDaysBeforeLastSlot = H, no returned slot starts after the end
\* of the day that is H days after now.
C4_NoSlotAfterHorizon ==
    (Returned /\ configuration.maxDaysBeforeLastSlot # None) =>
        \A i \in SlotIndices :
            IsSameOrBefore(timeSlots[i].startAt,
                           EndOfDay(AddDays(now, configuration.maxDaysBeforeLastSlot[1])))

\* C5: the returned list is non-decreasing in startAt.
C5_SlotsOrdered ==
    Returned =>
        \A i \in SlotIndices : \A j \in SlotIndices :
            i < j => IsSameOrBefore(timeSlots[i].startAt, timeSlots[j].startAt)

\* C6: no two entries of the returned list overlap and none is returned
\* twice: an earlier entry ends no later than a later entry starts.
C6_SlotsDisjoint ==
    Returned =>
        \A i \in SlotIndices : \A j \in SlotIndices :
            i < j => IsSameOrBefore(timeSlots[i].endAt, timeSlots[j].startAt)

\* C7: every returned slot has the configured duration and ends exactly
\* timeSlotDuration minutes after it starts.
C7_SlotDuration ==
    Returned =>
        \A i \in SlotIndices :
            /\ timeSlots[i].duration = configuration.timeSlotDuration[1]
            /\ timeSlots[i].endAt
                   = AddMinutes(timeSlots[i].startAt, configuration.timeSlotDuration[1])

\* C8: the minute of every returned slot's start is a multiple of
\* slotStartMinuteStep (5 by default), with zero seconds and milliseconds.
C8_StartOnStep ==
    Returned =>
        \A i \in SlotIndices :
            /\ MinuteOf(timeSlots[i].startAt) % Step = 0
            /\ timeSlots[i].startAt.ms = 0

C10_BuffersFree ==
    Returned =>
        \A i \in SlotIndices : \A e \in 1..Len(eventList) :
            Disjoint(SubtractMinutes(timeSlots[i].startAt, Before),
                     AddMinutes(timeSlots[i].endAt, After),
                     eventList[e].startAt, eventList[e].endAt)

\* C7 witness: a call with free time configured after 15-minute slots
\* returns several slots.
C7_Witness ==
    /\ Returned
    /\ Len(timeSlots) >= 2
    /\ configuration.timeSlotDuration = Some(15)
    /\ configuration.minAvailableTimeAfterSlot # None

MaxOf(a, b) == IF a >= b THEN a ELSE b

\* the slots of the current shift window, consecutive ones kept apart
SpacedByLargerBuffer ==
    \A i \in 1..(Len(shiftSlots) - 1) :
        IsSameOrBefore(AddMinutes(shiftSlots[i].endAt, MaxOf(Before, After)),
                       shiftSlots[i + 1].startAt)

\* the cursor a pushed slot leaves behind
CursorAfterPush ==
    PushSlot =>
        searchMoment' = AddMinutes(shiftSlots'[Len(shiftSlots')].endAt,
                                   MaxOf(0, After - Before))

\* C11: within one shift window, consecutive slots of the sweep are at
\* least max(minAvailableTimeBeforeSlot, minAvailableTimeAfterSlot) minutes
\* apart (next.startAt - previous.endAt), and the cursor after a slot is
\* the slot's end + max(0, after - before).
C11_SlotsSpacedByLargerBuffer ==
    []SpacedByLargerBuffer /\ [][CursorAfterPush]_vars

\* C11 witness: with both buffers configured and the one after the larger,
\* a shift window holds two consecutive slots exactly `after` minutes apart.
C11_Witness ==
    /\ Len(shiftSlots) >= 2
    /\ Before > 0
    /\ After > Before
    /\ shiftSlots[2].startAt = AddMinutes(shiftSlots[1].endAt, After)

\* C12: a slot is emitted by the sweep over a shift window [from, to] only
\* if the free time after it fits in the window too:
\* slot.endAt + minAvailableTimeAfterSlot <= to, the sweep stopping once its
\* cursor exceeds to - (before + duration + after).
C12_AfterBufferInsideWindow ==
    \A i \in 1..Len(shiftSlots) :
        IsSameOrBefore(AddMinutes(shiftSlots[i].endAt, After), partialTo)

\* C13: the call throws whenever from >= to, from = to included: it gets
\* past _checkSearchParameters only when from is before to.
C13_ThrowsUnlessFromBeforeTo ==
    (pc # "start" /\ ~IsBefore(from, to)) => pc = "threw"

\* C14: the call throws, before computing any slot, for every configuration
\* that isConfigurationValid rejects when called on that same configuration.
C14_ThrowsWhenValidatorRejects ==
    (pc # "start" /\ ~isConfigurationValid(configuration, now)) => pc = "threw"

\* _mergeOverlappingShifts has returned
Merged == pc = "merged"

\* C18: _mergeOverlappingShifts is idempotent: merging the list it returned
\* returns that list, element by element.
C18_MergeIdempotent ==
    Merged => _mergeOverlappingShifts(outcome) = outcome

\* C18 witness: a merge that shortened a list of three shifts.
C18_Witness ==
    /\ Merged
    /\ Len(subject) = 3
    /\ Len(outcome) = 2

\* the minute of the day of an "HH:mm" time
MinuteOfDay(time) == 60 * ParseHour(time) + ParseMinute(time)

\* the minutes of the day inside some shift of a list
Covered(shifts) ==
    UNION {MinuteOfDay(shifts[i].startTime)..MinuteOfDay(shifts[i].endTime) :
              i \in 1..Len(shifts)}

\* C19: the list _mergeOverlappingShifts returns is sorted by startTime, has
\* each endTime strictly before the next startTime, has no more elements
\* than its argument, and covers exactly the minutes of the day its
\* argument covers.
C19_MergeIsMinimalCover ==
    Merged =>
        /\ \A i \in 1..(Len(outcome) - 1) :
               /\ LocaleCompare(outcome[i].startTime, outcome[i + 1].startTime) < 0
               /\ LocaleCompare(outcome[i].endTime, outcome[i + 1].startTime) < 0
        /\ Len(outcome) <= Len(subject)
        /\ Covered(outcome) = Covered(subject)

\* C19 witness: three shifts given out of order, the first two of the day
\* overlapping and the third apart, are merged into two.
C19_Witness ==
    /\ Merged
    /\ subject = <<Shift(10, 40, 23, 59), Shift(9, 58, 10, 5), Shift(0, 0, 10, 5)>>
    /\ outcome = <<Shift(0, 0, 10, 5), Shift(10, 40, 23, 59)>>

\* a value the primitive checks of isConfigurationValid must refuse
PrimitiveViolation(cfg) ==
    \/ cfg.timeSlotDuration = None
    \/ cfg.timeSlotDuration[1] < 1
    \/ (cfg.slotStartMinuteStep # None
            /\ (cfg.slotStartMinuteStep[1] < 1 \/ cfg.slotStartMinuteStep[1] > 30))
    \/ (cfg.minAvailableTimeBeforeSlot # None /\ cfg.minAvailableTimeBeforeSlot[1] < 0)
    \/ (cfg.minAvailableTimeAfterSlot # None /\ cfg.minAvailableTimeAfterSlot[1] < 0)
    \/ (cfg.minTimeBeforeFirstSlot # None /\ cfg.minTimeBeforeFirstSlot[1] < 0)
    \/ (cfg.maxDaysBeforeLastSlot # None /\ cfg.maxDaysBeforeLastSlot[1] < 1)

HasThrown == DOMAIN outcome = {"throws"}

\* C15: isConfigurationValid, in each implementation, throws for a
\* configuration with timeSlotDuration missing or < 1, slotStartMinuteStep
\* outside [1, 30], a negative minAvailableTimeBeforeSlot,
\* minAvailableTimeAfterSlot or minTimeBeforeFirstSlot, or
\* maxDaysBeforeLastSlot < 1; it never returns false.
C15_ThrowsOnPrimitiveViolation ==
    pc \in {"validated", "validated (luxon)"} =>
        /\ outcome # Returns(FALSE)
        /\ PrimitiveViolation(subject) => HasThrown

\* the same for the dayjs implementation alone
C15_DayjsThrowsOnPrimitiveViolation ==
    pc = "validated" =>
        /\ outcome # Returns(FALSE)
        /\ PrimitiveViolation(subject) => HasThrown

\* two shifts overlap or touch, as intervals of the day
OverlapOrTouch(a, b) ==
    /\ LocaleCompare(a.startTime, b.endTime) <= 0
    /\ LocaleCompare(b.startTime, a.endTime) <= 0

SomeShiftsOverlapOrTouch(shifts) ==
    \E i, j \in 1..Len(shifts) : i # j /\ OverlapOrTouch(shifts[i], shifts[j])

WellFormed(shift) == LocaleCompare(shift.endTime, shift.startTime) > 0

\* all but the shifts of the configuration is valid
ValidBesidesShifts(cfg) ==
    /\ _checkPrimitiveValue(cfg) = "ok"
    /\ cfg.unavailablePeriods = None
    /\ \A k \in 1..Len(cfg.availablePeriods) :
           cfg.availablePeriods[k].isoWeekDay \in 1..7

\* C16: isConfigurationValid throws when two shifts of some available
\* period overlap or touch (each starts no later than the other ends), and
\* accepts, in whatever order they are listed, well-formed shifts that are
\* pairwise disjoint and do not touch.
C16_ThrowsIffShiftsOverlap ==
    pc = "validated" =>
        /\ (\E k \in 1..Len(subject.availablePeriods) :
                SomeShiftsOverlapOrTouch(subject.availablePeriods[k].shifts))
               => HasThrown
        /\ (/\ ValidBesidesShifts(subject)
            /\ \A k \in 1..Len(subject.availablePeriods) :
                   LET shifts == subject.availablePeriods[k].shifts
                   IN  /\ \A i \in 1..Len(shifts) : WellFormed(shifts[i])
                       /\ ~SomeShiftsOverlapOrTouch(shifts))
               => outcome = Returns(TRUE)

\* C16 witness: two disjoint shifts, the later listed first, are accepted.
C16_Witness ==
    /\ pc = "validated"
    /\ subject.availablePeriods
           = <<[isoWeekDay |-> 5,
                shifts |-> <<Shift(10, 5, 10, 40), Shift(0, 0, 9, 58)>>]>>
    /\ outcome = Returns(TRUE)

\* the fields of a period moment as a tuple, absent ones first in order
FieldsOf(periodMoment) ==
    <<OrElse(periodMoment.year, 0), periodMoment.month, periodMoment.day,
      OrElse(periodMoment.hour, 0), OrElse(periodMoment.minute, 0)>>

\* a strictly precedes b, both read as year, month, day, hour, minute
StrictlyPrecedes(a, b) == CompareFrom(FieldsOf(a), FieldsOf(b), 1) < 0

\* C17: _isUnavailablePeriodValid rejects a period when exactly one of its
\* ends has a year, when an end has a minute but no hour, or when both ends
\* have a year and startAt does not strictly precede endAt; it accepts a
\* period without years, of two valid ends, whose endAt month and day
\* precede those of its startAt.
C17_PeriodValidity ==
    pc = "period checked" =>
        /\ (subject.startAt.year = None) # (subject.endAt.year = None)
               => outcome = Returns(FALSE)
        /\ (\E end \in {subject.startAt, subject.endAt} :
                end.hour = None /\ end.minute # None)
               => outcome = Returns(FALSE)
        /\ (/\ subject.startAt.year # None
            /\ subject.endAt.year # None
            /\ ~StrictlyPrecedes(subject.startAt, subject.endAt))
               => outcome = Returns(FALSE)
        /\ (/\ subject.startAt.year = None
            /\ subject.endAt.year = None
            /\ _isPeriodMomentValid(subject.startAt, now)
            /\ _isPeriodMomentValid(subject.endAt, now)
            /\ StrictlyPrecedes([subject.endAt EXCEPT !.hour = None, !.minute = None],
                                [subject.startAt EXCEPT !.hour = None, !.minute = None]))
               => outcome = Returns(TRUE)

\* C17 witness: a period without years from 16 October to 16 February is
\* accepted.
C17_Witness ==
    /\ pc = "period checked"
    /\ subject.startAt.year = None
    /\ subject.endAt.year = None
    /\ subject.startAt.month = 9
    /\ subject.endAt.month = 1
    /\ subject.endAt.day = 16
    /\ outcome = Returns(TRUE)

\* neither end of the period has a year
IsYearly(period) == period.startAt.year = None /\ period.endAt.year = None

\* the occurrence of a yearly period that starts in a year
OccurrenceOf(period, year) ==
    UnavailablePeriodAsEvent(period, DateTime(year, 0, 1, 0, 0))

\* the years in which an occurrence meeting the search window may start
WindowYears == (YearOf(from) - 1)..YearOf(to)

\* C21: a blocked period without a year on either end repeats every year:
\* no returned slot overlaps the occurrence of the period in any year the
\* search window touches, the occurrence that began the year before and
\* runs over the end of that year included.
C21_YearlyPeriodBlocksEveryYear ==
    (Returned /\ isConfigurationValid(configuration, now)) =>
        \A i \in SlotIndices :
            \A p \in 1..Len(OrElse(configuration.unavailablePeriods, <<>>)) :
                LET period == configuration.unavailablePeriods[1][p]
                IN  IsYearly(period) =>
                        \A year \in WindowYears :
                            Disjoint(timeSlots[i].startAt, timeSlots[i].endAt,
                                     OccurrenceOf(period, year).startAt,
                                     OccurrenceOf(period, year).endAt)

\* the luxon call has returned
LuxonReturned == luxon.pc = "done"

\* the year a period moment is read in: its own, else the current one
YearRead(periodMoment) == OrElse(periodMoment.year, YearOf(now))

\* the instant the start of a period stands for: 00:00 of its day without
\* an hour, minute 0 of its hour without a minute
MeantStart(periodMoment) ==
    DateTime(YearRead(periodMoment), periodMoment.month, periodMoment.day,
             OrElse(periodMoment.hour, 0), OrElse(periodMoment.minute, 0))

\* the instant the end of a period stands for: the end of its day, where
\* the next day starts, without an hour, minute 0 of its hour without a
\* minute
MeantEnd(periodMoment) ==
    IF periodMoment.hour = None
    THEN AddDays(DateTime(YearRead(periodMoment), periodMoment.month,
                          periodMoment.day, 0, 0), 1)
    ELSE DateTime(YearRead(periodMoment), periodMoment.month, periodMoment.day,
                  periodMoment.hour[1], OrElse(periodMoment.minute, 0))

\* no slot of the list meets a period that has an end without a minute
ClearOfOpenEndedPeriods(slots) ==
    \A i \in 1..Len(slots) :
        \A p \in 1..Len(OrElse(configuration.unavailablePeriods, <<>>)) :
            LET period == configuration.unavailablePeriods[1][p]
            IN  (/\ period.startAt.minute = None \/ period.endAt.minute = None
                 /\ IsSameOrBefore(MeantStart(period.startAt),
                                   MeantEnd(period.endAt)))
                    => Disjoint(slots[i].startAt, slots[i].endAt,
                                MeantStart(period.startAt), MeantEnd(period.endAt))

\* C22: an end of a blocked period given without an hour is a whole day
\* (startAt from 00:00 of its day, endAt to the end of its day), so no slot
\* is returned at any time of the days from the startAt day through the
\* endAt day; an end with an hour and no minute is that hour at minute 0.
C22_WholeDayPeriods ==
    /\ (Returned /\ isConfigurationValid(configuration, now))
           => ClearOfOpenEndedPeriods(timeSlots)
    /\ (LuxonReturned /\ LuxonConfigurationError(configuration, now) = "ok")
           => ClearOfOpenEndedPeriods(luxon.timeSlots)

\* the same for the dayjs implementation alone
C22_DayjsWholeDayPeriods ==
    (Returned /\ isConfigurationValid(configuration, now))
        => ClearOfOpenEndedPeriods(timeSlots)

\* the month and the day of the period's end come before those of its start
EndPrecedesStart(period) ==
    \/ period.endAt.month < period.startAt.month
    \/ /\ period.endAt.month = period.startAt.month
       /\ period.endAt.day < period.startAt.day

\* the events built from the unavailable periods: each starts no later
\* than it ends, and the end of a yearly period that precedes its start is
\* in the year after the start's
EventsWellOrdered(events) ==
    \A e \in 1..Len(events) :
        /\ IsValidDateTime(events[e].startAt)
        /\ IsValidDateTime(events[e].endAt)
        /\ IsSameOrBefore(events[e].startAt, events[e].endAt)
        /\ LET period == configuration.unavailablePeriods[1][e]
           IN  (IsYearly(period) /\ EndPrecedesStart(period))
                   => YearOf(events[e].endAt) = YearOf(events[e].startAt) + 1

\* C23: for a blocked period without a year on either end whose endAt month
\* and day precede those of its startAt, the event's endAt is moved one year
\* later, so that every event built from a valid configuration has
\* startAt <= endAt.
C23_EventsWellOrdered ==
    /\ (pc \notin {"start", "threw"} /\ isConfigurationValid(configuration, now))
           => EventsWellOrdered(eventList)
    /\ (/\ luxon.pc \notin {"start", "threw"}
        /\ LuxonConfigurationError(configuration, now) = "ok")
           => EventsWellOrdered(luxon.eventList)

\* the same for the dayjs implementation alone
C23_DayjsEventsWellOrdered ==
    (pc \notin {"start", "threw"} /\ isConfigurationValid(configuration, now))
        => EventsWellOrdered(eventList)

\* the luxon call has returned or thrown
LuxonCallOver == luxon.pc \in {"done", "threw"}

\* C24: the two implementations of getAvailableTimeSlotsInCalendar are
\* equivalent: called with the same configuration, from and to at the same
\* instant, both throw, or both return the same slots (startAt, endAt and
\* duration) in the same order.
C24_ImplementationsAgree ==
    (DayjsCallOver /\ LuxonCallOver) =>
        \/ pc = "threw" /\ luxon.pc = "threw"
        \/ /\ Returned
           /\ LuxonReturned
           /\ luxon.timeSlots = timeSlots

C25_DayjsSearchTerminates ==
    (pc = "start" /\ isConfigurationValid(configuration, now) /\ IsBefore(from, to))
        ~> Returned

\* the sweep of the current shift window has left its loop
SweepOver == pc = "sweep" /\ ~SweepContinues

\* an instant at which a slot may start in the current shift window: it is
\* on the step, the slot fits the window, and no event overlaps the slot
\* with the free time before and after it
Feasible(t) ==
    /\ MinuteOf(t) % Step = 0
    /\ t.ms = 0
    /\ IsSameOrBefore(partialFrom, t)
    /\ IsSameOrBefore(AddMinutes(t, configuration.timeSlotDuration[1]), partialTo)
    /\ \A e \in 1..Len(eventList) :
           Disjoint(SubtractMinutes(t, Before),
                    AddMinutes(t, configuration.timeSlotDuration[1] + After),
                    eventList[e].startAt, eventList[e].endAt)

\* the whole minutes of the current shift window
WindowMinutes == {[min |-> m, ms |-> 0] : m \in partialFrom.min..partialTo.min}

\* the instant from which the i-th slot of the window may start
SlotLowerBound(i) ==
    IF i = 1 THEN partialFrom
    ELSE AddMinutes(shiftSlots[i - 1].endAt, MaxOf(Before, After))

\* no slot could have started in the window between two instants
NoneFeasibleBetween(lower, upper) ==
    \A t \in WindowMinutes :
        (IsSameOrBefore(lower, t) /\ IsBefore(t, upper)) => ~Feasible(t)

\* C26: the sweep of a shift window [from, to] is greedy and misses no
\* feasible slot: the first slot starts at the earliest instant on the step
\* at or after from such that the slot fits the window and no event overlaps
\* [t - before, t + duration + after]; each following slot starts at the
\* earliest such instant at least max(before, after) after the previous
\* slot's end; the sweep stops only when no such instant remains.
C26_SweepIsGreedy ==
    SweepOver =>
        /\ \A i \in 1..Len(shiftSlots) :
               /\ Feasible(shiftSlots[i].startAt)
               /\ IsSameOrBefore(SlotLowerBound(i), shiftSlots[i].startAt)
               /\ NoneFeasibleBetween(SlotLowerBound(i), shiftSlots[i].startAt)
        /\ NoneFeasibleBetween(SlotLowerBound(Len(shiftSlots) + 1),
                               AddMinutes(partialTo, 1))

\* the first message of a list of checks that is not "ok"
RECURSIVE FirstFailure(_, _)
FirstFailure(messages, i) ==
    IF i > Len(messages) THEN "ok"
    ELSE IF messages[i] # "ok" THEN messages[i]
    ELSE FirstFailure(messages, i + 1)

\* what each group of checks of isConfigurationValid has to say
RangeMessage(cfg) ==
    IF PrimitiveViolation(cfg) THEN _checkPrimitiveValue(cfg) ELSE "ok"

ZoneMessage(cfg) == _checkTimeZone(cfg.timeZone)

AvailabilityMessage(cfg) == AvailablePeriodsError(cfg.availablePeriods, 1)

PeriodMessage(cfg, today) ==
    IF /\ cfg.unavailablePeriods # None
       /\ \E i \in 1..Len(cfg.unavailablePeriods[1]) :
              ~_isUnavailablePeriodValid(cfg.unavailablePeriods[1][i], today)
    THEN "Unavailable period is invalid"
    ELSE "ok"

HorizonMessage(cfg) ==
    IF /\ cfg.minTimeBeforeFirstSlot # None
       /\ cfg.maxDaysBeforeLastSlot # None
       /\ cfg.minTimeBeforeFirstSlot[1] > cfg.maxDaysBeforeLastSlot[1] * MinutesPerDay
    THEN "The first possible slot will always be after last one possible"
    ELSE "ok"

OutcomeOf(message) ==
    IF message = "ok" THEN Returns(TRUE) ELSE Throws(message)

\* C27 as stated: isConfigurationValid reports the first failure in the
\* order primitive ranges, time zone, weekday availabilities, blocked
\* periods, and only last the lead time against the horizon.
C27_HorizonCheckedLast ==
    pc = "validated" =>
        outcome = OutcomeOf(FirstFailure(<<RangeMessage(subject),
                                           ZoneMessage(subject),
                                           AvailabilityMessage(subject),
                                           PeriodMessage(subject, now),
                                           HorizonMessage(subject)>>, 1))

\* C27 amended: isConfigurationValid reports the first failure in the order
\* primitive ranges, time zone, the lead time against the horizon, weekday
\* availabilities, blocked periods.
C27_HorizonCheckedAfterZone ==
    pc = "validated" =>
        outcome = OutcomeOf(FirstFailure(<<RangeMessage(subject),
                                           ZoneMessage(subject),
                                           HorizonMessage(subject),
                                           AvailabilityMessage(subject),
                                           PeriodMessage(subject, now)>>, 1))

\* C27 witness: a configuration with a shift that ends before it starts, an
\* unavailable period on February 30 and a lead time beyond the horizon is
\* rejected with the error of the lead time.
C27_Witness ==
    /\ pc = "validated"
    /\ RangeMessage(subject) = "ok"
    /\ ZoneMessage(subject) = "ok"
    /\ AvailabilityMessage(subject) # "ok"
    /\ PeriodMessage(subject, now) # "ok"
    /\ outcome = Throws("The first possible slot will always be after last one possible")

\* the events _filterPeriods keeps for the current shift window
FilteredEvents ==
    _filterPeriods(eventList, FilteringMin(usedConfig, partialFrom),
                   FilteringMax(usedConfig, partialTo))

\* how many times an event is in a list
Occurrences(events, event) ==
    Cardinality({i \in 1..Len(events) : events[i] = event})

\* the list is in the order of its startAt, and of its endAt
SortedByStartAndEnd(events) ==
    \A i \in 1..(Len(events) - 1) :
        /\ IsSameOrBefore(events[i].startAt, events[i + 1].startAt)
        /\ IsSameOrBefore(events[i].endAt, events[i + 1].endAt)

\* outer starts no later than inner and ends at least as late
Contains(outer, inner) ==
    /\ IsSameOrBefore(outer.startAt, inner.startAt)
    /\ IsSameOrBefore(inner.endAt, outer.endAt)

\* outer starts no later than inner and ends later
OutlastsFromBefore(outer, inner) ==
    /\ IsSameOrBefore(outer.startAt, inner.startAt)
    /\ IsAfter(outer.endAt, inner.endAt)

\* no event of the list lies within another event of the list, an event
\* that starts or ends with it, or both, included
NoneContained(events) ==
    \A i, j \in 1..Len(events) : i # j => ~Contains(events[j], events[i])

\* the events dropped are those that another event outlasts from before;
\* the others are kept, as many times as they are given
DropsOutlastedEvents ==
    \A i \in 1..Len(FilteredEvents) :
        Occurrences(cleanedList, FilteredEvents[i])
            = IF \E j \in 1..Len(FilteredEvents) :
                     OutlastsFromBefore(FilteredEvents[j], FilteredEvents[i])
              THEN 0
              ELSE Occurrences(FilteredEvents, FilteredEvents[i])

\* a jump to the end of an event does not move the cursor backwards
JumpsForward == SkipEvent => IsSameOrBefore(searchMoment, searchMoment')

\* C28 as stated: the list _prepareEvents returns for a shift window is
\* sorted by startAt and holds no event contained in another retained event,
\* ties on equal start or equal end included; its startAt and endAt are both
\* non-decreasing, and the cursor of the sweep never moves backwards when it
\* jumps to the end of an event.
C28_NoRetainedEventContained ==
    /\ [](pc = "sweep" => (SortedByStartAndEnd(cleanedList) /\ NoneContained(cleanedList)))
    /\ [][JumpsForward]_vars

\* C28 amended: the list is sorted by startAt, an event is dropped exactly
\* when another event starts no later and ends strictly later, so events
\* that end together are all retained; startAt and endAt are both
\* non-decreasing and the cursor never moves backwards on a jump.
C28_OutlastedEventsDropped ==
    /\ [](pc = "sweep" =>
            /\ SortedByStartAndEnd(cleanedList)
            /\ DropsOutlastedEvents
            /\ \A i \in 1..Len(cleanedList) :
                   Occurrences(FilteredEvents, cleanedList[i]) > 0)
    /\ [][JumpsForward]_vars

\* C28 witness: two events that end together, one starting within the
\* other, are both retained, and the sweep has jumped to the end of each.
C28_Witness ==
    /\ pc = "sweep"
    /\ Len(cleanedList) = 2
    /\ IsBefore(cleanedList[1].startAt, cleanedList[2].startAt)
    /\ cleanedList[1].endAt = cleanedList[2].endAt
    /\ eventIndex = 2
    /\ searchMoment = cleanedList[2].endAt

\* the caller's objects are as they were before the step
InputsUntouched == configuration' = configuration /\ subject' = subject

\* C20: getAvailableTimeSlotsInCalendar, isConfigurationValid and
\* _mergeOverlappingShifts leave their inputs unchanged, whether they return
\* or throw: the caller's configuration, its availablePeriods, shift lists
\* and unavailablePeriods keep their contents and order.
C20_InputsUntouched == [][InputsUntouched]_vars

\* C20 witness: a search that returned slots worked on merged shifts that
\* differ from the ones of the caller's configuration.
C20_Witness ==
    /\ Returned
    /\ Len(timeSlots) > 0
    /\ usedConfig.availablePeriods # configuration.availablePeriods

====
